---- MODULE Spec2Model ----
(***************************************************************************)
(* Model of the container-engine client of "contained":                    *)
(*   - src/src/docker_client.rs : create/start/wait/attach calls and the   *)
(*     classification of the engine's responses into results;              *)
(*   - src/src/lib.rs           : contained_via_daemon,                    *)
(*     run_container_with_tty and run_container, i.e. the orchestration    *)
(*     create -> (raw mode) -> attach -> spawn wait thread -> start ->     *)
(*     recv -> remove -> (restore terminal).                               *)
(*                                                                         *)
(* Three specifications share the variables:                               *)
(*   SpecCalls : one engine call applied to every response of a bounded    *)
(*               set (the calls as functions of the response);             *)
(*   Spec      : one run of the orchestrator, interleaved with the wait    *)
(*               thread, the two pump threads and the engine;              *)
(*   FairSpec  : Spec with the fairness the OS scheduler and the engine    *)
(*               provide (every runnable thread eventually runs).          *)
(***************************************************************************)
EXTENDS Integers, Sequences, FiniteSets, TLC

VARIABLES
    pc,          \* position of the calling (main) thread
    isTerminal,  \* [stream -> BOOLEAN]: is_terminal() of stdin/stdout/stderr
    tty,         \* Option<Tty> built by contained_via_daemon
    termMode,    \* process-global terminal mode: "cooked" | "raw"
    termLog,     \* history of terminal mode changes
    reqs,        \* history of the requests issued to the engine, in order
    container,   \* engine side: state of the container
    exitCode,    \* engine side: exit code of the container once exited
    waiter,      \* engine side: state of the wait (next-exit) request
    attachRes,   \* result of attach_container
    session,     \* attach session: state machine position, multiplex flag and
                 \* the status and content type of the response once it is read
    readPump,    \* the "read" thread (socket -> local stdout/stderr)
    writePump,   \* the "write" thread (local stdin -> socket)
    emitted,     \* engine side: chunks written to the attach stream
    forwarded,   \* chunks the read pump has written to the local output
    wpc,         \* position of the "wait" thread
    wres,        \* result of wait_container held by the wait thread
    chan,        \* exit-code channel: sequence of sent results
    rx,          \* receiving end (wait_rx): "none" | "alive" | "dropped"
    sends,       \* number of successful sends on the channel
    recvs,       \* number of values received from the channel
    recvd,       \* what recv() returned to the orchestrator
    createRes,   \* result of create_container
    startRes,    \* result of start_container
    removeRes,   \* result of remove_container
    result,      \* return value of the run
    call,        \* SpecCalls: the engine call applied and its result
    wire,        \* SpecWire: one make_request reading a response off the socket
    demux,       \* SpecDemux: one read pump over the attach stream
    bind,        \* SpecBind: one Bind and its serialized string
    build,       \* SpecBuild: one create body or podman command being built
    conns,       \* socket connections opened so far, who used each, and for
                 \* how many requests
    proc         \* the end of the process of the binary and its exit status

vars == <<pc, isTerminal, tty, termMode, termLog, reqs, container, exitCode,
          waiter, attachRes, session, readPump, writePump, emitted, forwarded,
          wpc, wres, chan, rx, sends, recvs, recvd,
          createRes, startRes, removeRes, result, call, wire, demux, bind,
          build, conns, proc>>

\* the variables of the specifications of single functions
pureVars == <<wire, demux, bind, build>>

(***************************************************************************)
(* Bounds of the model                                                     *)
(***************************************************************************)
\* chunks of output the container may emit on the attach stream
MaxOut == 1

(***************************************************************************)
(* Program constants                                                       *)
(***************************************************************************)
\* StatusCode::CREATED
CREATED == 201
\* range of StatusCode::is_success
SuccessLo == 200
SuccessHi == 299
\* range of StatusCode::is_informational
InfoLo == 100
InfoHi == 199
\* u8::MAX, the range of the exit code returned by wait_container
U8Max == 255

APPLICATION_JSON == "application/json"

(***************************************************************************)
(* JSON values (serde_json::Value), one level of nesting                   *)
(***************************************************************************)
Keys == {"Id", "StatusCode", "message"}

\* a scalar, or "absent" for an object member that is not there
Scalar(kind, s, n) == [kind |-> kind, s |-> s, n |-> n]
Absent == Scalar("absent", "", 0)
Null == Scalar("null", "", 0)
Str(s) == Scalar("string", s, 0)
\* N::PosInt
UInt(n) == Scalar("uint", "", n)
\* N::NegInt
NInt(n) == Scalar("nint", "", n)
\* N::Float (also an integer literal beyond u64)
Float(n) == Scalar("float", "", n)

NoMembers == [k \in Keys |-> Absent]
Value(sc, members) == [kind |-> sc.kind, s |-> sc.s, n |-> sc.n, members |-> members]
Plain(sc) == Value(sc, NoMembers)
Object(members) == Value(Scalar("object", "", 0), members)
Array == Plain(Scalar("array", "", 0))
JNull == Plain(Null)

\* impl Index for str: Null unless the value is an object that has the key
Index(v, key) ==
    IF v.kind = "object" /\ v.members[key].kind # "absent"
    THEN v.members[key]
    ELSE Null

\* Option<T>
None == [some |-> FALSE, s |-> "", n |-> 0]
SomeStr(s) == [some |-> TRUE, s |-> s, n |-> 0]
SomeNum(n) == [some |-> TRUE, s |-> "", n |-> n]

\* Value::as_str
as_str(v) == IF v.kind = "string" THEN SomeStr(v.s) ELSE None
\* Value::as_u64: only N::PosInt (a non-negative integer that fits u64)
as_u64(v) == IF v.kind = "uint" THEN SomeNum(v.n) ELSE None

(***************************************************************************)
(* Results and DockerError                                                 *)
(***************************************************************************)
\* text of an error: a fixed text, and the value formatted into it
Msg(text) == [text |-> text, arg |-> JNull]
MsgOf(text, v) == [text |-> text, arg |-> v]
NoMsg == Msg("")

Ok(val) == [ok |-> TRUE, val |-> val, err |-> "", status |-> 0, msg |-> NoMsg]
Err(kind, status, msg) ==
    [ok |-> FALSE, val |-> SomeNum(0), err |-> kind, status |-> status, msg |-> msg]
Unit == SomeNum(0)
NoResult == [ok |-> FALSE, val |-> None, err |-> "none", status |-> 0, msg |-> NoMsg]

(***************************************************************************)
(* make_request: what it returns once the body has been taken from the     *)
(* buffer (docker_client.rs 387-399).  A response is                       *)
(*   transport    : "ok", or the failure met on the socket / in the header  *)
(*   status       : the status code of the status line                     *)
(*   content_type : value of the Content-Type header ("" when missing)     *)
(*   body         : absent, or present with its parse as JSON              *)
(***************************************************************************)
NoBody == [present |-> FALSE, parses |-> FALSE, json |-> JNull]
JsonBody(v) == [present |-> TRUE, parses |-> TRUE, json |-> v]
\* a body whose bytes are not a JSON text
BadBody == [present |-> TRUE, parses |-> FALSE, json |-> JNull]

Response(transport, status, content_type, body) ==
    [transport |-> transport, status |-> status,
     content_type |-> content_type, body |-> body]

\* u8::to_ascii_lowercase over the content types of the model
Lower(s) == IF s = "Application/JSON" THEN "application/json" ELSE s
eq_ignore_ascii_case(a, b) == Lower(a) = Lower(b)

\* Ok((status, maybe_body)) or Err(error)
Delivered(status, some, json) ==
    [ok |-> TRUE, status |-> status, some |-> some, json |-> json, error |-> NoResult]
Failed(error) ==
    [ok |-> FALSE, status |-> 0, some |-> FALSE, json |-> JNull, error |-> error]

\* Faulty variant: a body is deserialized whatever the content type
MakeRequestAnyType(resp) ==
    IF resp.transport # "ok"
    THEN Failed(Err(resp.transport, 0, NoMsg))
    ELSE IF resp.body.present
    THEN IF resp.body.parses
         THEN Delivered(resp.status, TRUE, resp.body.json)
         ELSE Failed(Err("InvalidJson", resp.status, Msg("body")))
    ELSE Delivered(resp.status, FALSE, JNull)

MakeRequest(resp) ==
    IF resp.transport # "ok"
    THEN Failed(Err(resp.transport, 0, NoMsg))
    ELSE IF resp.body.present
    THEN IF eq_ignore_ascii_case(resp.content_type, APPLICATION_JSON)
         THEN IF resp.body.parses
              THEN Delivered(resp.status, TRUE, resp.body.json)
              ELSE Failed(Err("InvalidJson", resp.status, Msg("body")))
         ELSE Failed(Err("InvalidResponse", resp.status, Msg("body")))
    ELSE Delivered(resp.status, FALSE, JNull)

\* StatusCode::is_success
is_success(status) == SuccessLo <= status /\ status <= SuccessHi
\* StatusCode::is_informational
is_informational(status) == InfoLo <= status /\ status <= InfoHi

\* Faulty variant: the body's message is ignored, the fallback text is always used.
make_error_response_fallback_only(status, body, fallback_error_message) ==
    Err("ErrorResponse", status, Msg(fallback_error_message))

make_error_response(status, body, fallback_error_message) ==
    LET m == as_str(Index(body, "message")) IN
    Err("ErrorResponse", status,
        Msg(IF m.some THEN m.s ELSE fallback_error_message))

(***************************************************************************)
(* create_container, wait_container, start_container                      *)
(***************************************************************************)
\* Faulty variant: any 2xx status is taken as success and a missing Id is defaulted.
CreateContainerLenient(resp) ==
    LET r == MakeRequest(resp) IN
    IF ~r.ok THEN r.error
    ELSE IF r.some /\ is_success(r.status)
    THEN LET id == as_str(Index(r.json, "Id")) IN
         IF id.some THEN Ok(id) ELSE Ok(SomeStr(""))
    ELSE IF r.some
    THEN make_error_response(r.status, r.json, "Container creation failed")
    ELSE Err("InvalidResponse", r.status, Msg(""))

CreateContainer(resp) ==
    LET r == MakeRequest(resp) IN
    IF ~r.ok THEN r.error
    ELSE IF r.some /\ r.status = CREATED
    THEN LET id == as_str(Index(r.json, "Id")) IN
         IF id.some THEN Ok(id)
         ELSE Err("InvalidResponse", r.status, MsgOf("", r.json))
    ELSE IF r.some
    THEN make_error_response(r.status, r.json, "Container creation failed")
    ELSE Err("InvalidResponse", r.status, Msg(""))

\* Faulty variant: the status code is narrowed with a wrapping cast (as u8).
WaitContainerWrapping(resp) ==
    LET r == MakeRequest(resp) IN
    IF ~r.ok THEN r.error
    ELSE IF r.some /\ is_success(r.status)
    THEN LET status_code == as_u64(Index(r.json, "StatusCode")) IN
         IF ~status_code.some
         THEN Err("InvalidResponse", r.status, MsgOf("", r.json))
         ELSE Ok(SomeNum(status_code.n % (U8Max + 1)))
    ELSE IF r.some
    THEN make_error_response(r.status, r.json, "Container wait failed")
    ELSE Err("InvalidResponse", r.status, Msg(""))

WaitContainer(resp) ==
    LET r == MakeRequest(resp) IN
    IF ~r.ok THEN r.error
    ELSE IF r.some /\ is_success(r.status)
    THEN LET status_code == as_u64(Index(r.json, "StatusCode")) IN
         IF ~status_code.some
         THEN Err("InvalidResponse", r.status, MsgOf("", r.json))
         ELSE IF status_code.n <= U8Max
         THEN Ok(SomeNum(status_code.n))
         ELSE Err("InvalidResponse", r.status,
                  MsgOf("container status code >255: ", Plain(UInt(status_code.n))))
    ELSE IF r.some
    THEN make_error_response(r.status, r.json, "Container wait failed")
    ELSE Err("InvalidResponse", r.status, Msg(""))

\* Faulty variant: a success status counts only when the response has no body.
StartContainerNoBodyOnly(resp) ==
    LET r == MakeRequest(resp) IN
    IF ~r.ok THEN r.error
    ELSE IF is_success(r.status) /\ ~r.some THEN Ok(Unit)
    ELSE IF r.some
    THEN make_error_response(r.status, r.json, "Container start failed")
    ELSE Err("InvalidResponse", r.status, Msg(""))

StartContainer(resp) ==
    LET r == MakeRequest(resp) IN
    IF ~r.ok THEN r.error
    ELSE IF is_success(r.status) THEN Ok(Unit)
    ELSE IF r.some
    THEN make_error_response(r.status, r.json, "Container start failed")
    ELSE Err("InvalidResponse", r.status, Msg(""))

\* remove_container: POST/DELETE on the container, any 2xx is success
RemoveContainer(resp) ==
    LET r == MakeRequest(resp) IN
    IF ~r.ok THEN r.error
    ELSE IF is_success(r.status) THEN Ok(Unit)
    ELSE IF r.some
    THEN make_error_response(r.status, r.json, "Container removal failed")
    ELSE Err("InvalidResponse", r.status, Msg(""))

(***************************************************************************)
(* The responses the calls are applied to                                  *)
(***************************************************************************)
Statuses == {101, 199, 200, 201, 204, 299, 300, 304, 404, 409, 500}
ContentTypes == {"application/json", "Application/JSON",
                 "application/json; charset=utf-8", "text/plain", ""}
Transports == {"ok", "NetworkError", "HttpError"}

IdMembers == {Absent, Null, Str("abc123"), UInt(7)}
StatusCodeMembers ==
    {Absent, Null, Str("137"), NInt(1), Float(137)}
    \cup {UInt(n) : n \in {0, 1, 137, 255, 256, 257, 65536, 2147483647}}
MessageMembers == {Absent, Null, Str("no such container"), UInt(7)}

Objects ==
    {Object([k \in Keys |-> CASE k = "Id" -> i
                              [] k = "StatusCode" -> c
                              [] OTHER -> m]) :
        i \in IdMembers, c \in StatusCodeMembers, m \in MessageMembers}
Values == Objects \cup {JNull, Array, Plain(Str("abc123")), Plain(UInt(137))}
Bodies == {NoBody, BadBody} \cup {JsonBody(v) : v \in Values}

Responses ==
    {Response("ok", st, ct, b) : st \in Statuses, ct \in ContentTypes, b \in Bodies}
    \cup {Response(t, 0, "", NoBody) : t \in Transports \ {"ok"}}

(***************************************************************************)
(* SpecCalls: each engine call as a function of the engine's response      *)
(***************************************************************************)
NoCall == [fn |-> "none", resp |-> Response("ok", 0, "", NoBody), result |-> NoResult]
Applied(fn, resp, res) == [fn |-> fn, resp |-> resp, result |-> res]

Streams == {"stdin", "stdout", "stderr"}
NoTty == [some |-> FALSE, height |-> 0, width |-> 0]
\* Tty::new(height, width)
Tty(height, width) == [some |-> TRUE, height |-> height, width |-> width]
NoSession == [state |-> "Connecting", multiplexed |-> FALSE,
              status |-> 0, content_type |-> ""]
NoRun == [ok |-> FALSE, id |-> "", code |-> 0, stage |-> "none", cause |-> NoResult]

\* no make_request, no read pump and no Bind under consideration
NoWire == [pc |-> "idle"]
NoDemux == [pc |-> "idle"]
NoBind == [pc |-> "idle"]
NoBuild == [pc |-> "idle"]

\* the process of the binary has not ended
NoProc == [ended |-> FALSE, bin |-> "", status |-> 0]
\* the exit status of the process of a binary
Exited(bin, status) == [ended |-> TRUE, bin |-> bin, status |-> status]

\* the run and the calls before anything is done
Idle ==
    /\ pc = "tty"
    /\ tty = NoTty
    /\ termMode = "cooked"
    /\ termLog = <<>>
    /\ reqs = <<>>
    /\ container = "none"
    /\ exitCode = 0
    /\ waiter = "none"
    /\ attachRes = NoResult
    /\ session = NoSession
    /\ readPump = "none"
    /\ writePump = "none"
    /\ emitted = 0
    /\ forwarded = 0
    /\ wpc = "none"
    /\ wres = NoResult
    /\ chan = <<>>
    /\ rx = "none"
    /\ sends = 0
    /\ recvs = 0
    /\ recvd = NoResult
    /\ createRes = NoResult
    /\ startRes = NoResult
    /\ removeRes = NoResult
    /\ result = NoRun
    /\ call = NoCall
    /\ conns = <<>>
    /\ proc = NoProc

runVars == <<pc, isTerminal, tty, termMode, termLog, reqs, container, exitCode,
             waiter, attachRes, session, readPump, writePump, emitted, forwarded,
             wpc, wres, chan, rx, sends, recvs, recvd,
             createRes, startRes, removeRes, result, conns, proc>>

InitCalls ==
    /\ Idle
    /\ wire = NoWire /\ demux = NoDemux /\ bind = NoBind /\ build = NoBuild
    /\ isTerminal = [st \in Streams |-> FALSE]

CallCreate ==
    /\ call = NoCall
    /\ \E resp \in Responses : call' = Applied("create", resp, CreateContainer(resp))
    /\ UNCHANGED <<runVars, pureVars>>

CallWait ==
    /\ call = NoCall
    /\ \E resp \in Responses : call' = Applied("wait", resp, WaitContainer(resp))
    /\ UNCHANGED <<runVars, pureVars>>

CallStart ==
    /\ call = NoCall
    /\ \E resp \in Responses : call' = Applied("start", resp, StartContainer(resp))
    /\ UNCHANGED <<runVars, pureVars>>

NextCalls == CallCreate \/ CallWait \/ CallStart

SpecCalls == InitCalls /\ [][NextCalls]_vars

(***************************************************************************)
(* Claims about the calls (checked under SpecCalls)                        *)
(***************************************************************************)
\* the response reached the call: no socket or framing failure
Arrived(resp) == resp.transport = "ok"
\* the response carries a body that is declared as JSON and is a JSON text
HasJsonBody(resp) ==
    /\ Arrived(resp)
    /\ resp.body.present
    /\ resp.body.parses
    /\ resp.content_type \in {"application/json", "Application/JSON"}
\* that JSON body is an object whose member `key` is a string
HasStringMember(resp, key) ==
    /\ HasJsonBody(resp)
    /\ resp.body.json.kind = "object"
    /\ resp.body.json.members[key].kind = "string"
\* that JSON body is an object whose member `key` is a non-negative integer
HasUIntMember(resp, key) ==
    /\ HasJsonBody(resp)
    /\ resp.body.json.kind = "object"
    /\ resp.body.json.members[key].kind = "uint"
Is2xx(status) == status \in 200..299

\* C7: create_container returns Ok(id) if and only if the status is exactly
\* 201 and the JSON body has a string Id, and then id is that field; a 201
\* without body or without a string Id yields InvalidResponse (never a
\* defaulted id); every other status yields an error.
C7_CreateOkIff201WithId ==
    call.fn = "create" =>
        LET resp == call.resp
            res == call.result
        IN  /\ res.ok <=> (resp.status = 201 /\ HasStringMember(resp, "Id"))
            /\ res.ok => res.val = SomeStr(resp.body.json.members["Id"].s)
            /\ (Arrived(resp) /\ resp.status = 201 /\ ~resp.body.present)
                  => (~res.ok /\ res.err = "InvalidResponse")
            /\ (resp.status = 201 /\ HasJsonBody(resp) /\ ~HasStringMember(resp, "Id"))
                  => (~res.ok /\ res.err = "InvalidResponse")
            /\ (Arrived(resp) /\ resp.status # 201) => ~res.ok

C7_Witness ==
    /\ call.fn = "create"
    /\ call.resp.status = 201
    /\ HasStringMember(call.resp, "Id")
    /\ call.result = Ok(SomeStr("abc123"))

\* C8: wait_container returns the body's StatusCode unchanged whenever the
\* status is 2xx and 0 <= StatusCode <= 255, and InvalidResponse (never a
\* truncated or wrapped value) whenever StatusCode is 256 or above.
C8_WaitNarrowsOrRejects ==
    (call.fn = "wait" /\ Is2xx(call.resp.status)
        /\ HasUIntMember(call.resp, "StatusCode")) =>
        LET n == call.resp.body.json.members["StatusCode"].n
            res == call.result
        IN  /\ n <= 255 => res = Ok(SomeNum(n))
            /\ n >= 256 => (~res.ok /\ res.err = "InvalidResponse")

C8_Witness ==
    /\ call.fn = "wait"
    /\ Is2xx(call.resp.status)
    /\ HasUIntMember(call.resp, "StatusCode")
    /\ call.resp.body.json.members["StatusCode"].n = 256
    /\ call.result.err = "InvalidResponse"

\* C9 as stated: start_container returns Ok exactly when the response status
\* is 2xx, whatever the body (including no body).
C9_StartOkIff2xx ==
    (call.fn = "start" /\ Arrived(call.resp)) =>
        (call.result.ok <=> Is2xx(call.resp.status))

\* C9 as amended: start_container returns Ok exactly when the status is 2xx
\* and the response has no body or a body that is declared as JSON and is a
\* JSON text (whatever JSON value it is); every non-2xx status is an error.
C9_StartOkIff2xxDelivered ==
    call.fn = "start" =>
        LET resp == call.resp IN
        /\ call.result.ok <=>
             (/\ Arrived(resp)
              /\ Is2xx(resp.status)
              /\ (~resp.body.present \/ HasJsonBody(resp)))
        /\ ~Is2xx(resp.status) => ~call.result.ok

C9_Witness ==
    /\ call.fn = "start"
    /\ Is2xx(call.resp.status)
    /\ HasJsonBody(call.resp)
    /\ call.resp.body.json.kind = "object"
    /\ call.result.ok

\* the fixed fallback text of each call
FallbackText(fn) ==
    CASE fn = "create" -> "Container creation failed"
      [] fn = "start" -> "Container start failed"
      [] fn = "wait" -> "Container wait failed"
\* a status that is a failure for the call: create succeeds on 201 only
FailureStatus(fn, status) ==
    IF fn = "create" THEN status # 201 ELSE ~Is2xx(status)

\* C10: for create, start and wait, a failure status with a JSON body yields
\* ErrorResponse carrying the HTTP status and the body's `message` when it
\* is present and a string, and otherwise the call's fixed fallback text.
C10_ErrorResponseMessage ==
    (/\ call.fn \in {"create", "start", "wait"}
     /\ HasJsonBody(call.resp)
     /\ FailureStatus(call.fn, call.resp.status)) =>
        LET resp == call.resp
            res == call.result
        IN  /\ ~res.ok
            /\ res.err = "ErrorResponse"
            /\ res.status = resp.status
            /\ res.msg.text =
                 IF HasStringMember(resp, "message")
                 THEN resp.body.json.members["message"].s
                 ELSE FallbackText(call.fn)

C10_Witness ==
    /\ call.fn = "wait"
    /\ call.resp.status = 404
    /\ HasStringMember(call.resp, "message")
    /\ call.result = Err("ErrorResponse", 404, Msg("no such container"))

(***************************************************************************)
(* Spec: one run of contained_via_daemon                                   *)
(*                                                                         *)
(* Main thread:  tty -> create -> rawmode -> attach -> spawn -> start ->   *)
(*               recv -> remove -> restore -> done                         *)
(* Wait thread:  spawned -> ready -> blocked -> got -> done | panicked     *)
(* Engine:       container none -> created -> running -> exited -> removed *)
(***************************************************************************)
\* (width, height) pairs terminal_size() may return
TermSizes == {<<80, 24>>}
\* exit codes the engine may report in StatusCode
ExitCodes == {0, 137, 256}
ContainerId == "abc123"

JsonResponse(status, members) ==
    Response("ok", status, APPLICATION_JSON, JsonBody(Object(members)))
WithMember(key, sc) == [k \in Keys |-> IF k = key THEN sc ELSE Absent]
TransportFailure == Response("NetworkError", 0, "", NoBody)

\* what the engine may answer to each request of the run
CreateResponses ==
    { JsonResponse(201, WithMember("Id", Str(ContainerId))),
      JsonResponse(201, NoMembers),
      JsonResponse(409, WithMember("message", Str("no such container"))),
      Response("ok", 500, "", NoBody),
      TransportFailure }
StartResponses ==
    { Response("ok", 204, "", NoBody),
      Response("ok", 304, "", NoBody),
      JsonResponse(404, WithMember("message", Str("no such container"))),
      JsonResponse(500, NoMembers),
      TransportFailure }
\* answers to wait that do not depend on the container exiting
WaitErrorResponses ==
    { JsonResponse(404, WithMember("message", Str("no such container"))),
      Response("ok", 500, "", NoBody),
      TransportFailure }
\* answer to wait once the awaited exit has happened
WaitExitResponse(code) == JsonResponse(200, WithMember("StatusCode", UInt(code)))
RemoveResponses ==
    { Response("ok", 204, "", NoBody),
      JsonResponse(409, WithMember("message", Str("no such container"))),
      TransportFailure }

\* Faulty variant: a call writes its request to the connection of the call
\* before it.
ConnectShared(cs, by, thread) ==
    IF cs = <<>>
    THEN <<[by |-> {by}, users |-> {thread}, requests |-> 1]>>
    ELSE [cs EXCEPT ![Len(cs)] = [by |-> @.by \cup {by},
                                  users |-> @.users \cup {thread},
                                  requests |-> @.requests + 1]]

\* UnixStream::connect(DOCKER_SOCK) in make_request and in attach_container:
\* a new connection, held in a local of the call, to which the calling
\* thread writes the one request of the call
Connect(cs, by, thread) ==
    Append(cs, [by |-> {by}, users |-> {thread}, requests |-> 1])

\* attach_container moves the stream into the "read" thread and its
\* try_clone into the "write" thread, when they are spawned
Handed(cs, read, write) ==
    [cs EXCEPT ![Len(cs)].users = @ \cup (IF read THEN {"read"} ELSE {})
                                    \cup (IF write THEN {"write"} ELSE {})]

RunOk(id, code) == [ok |-> TRUE, id |-> id, code |-> code, stage |-> "", cause |-> NoResult]
\* anyhow context: the stage that failed and the failure it wraps
RunErr(stage, cause) == [ok |-> FALSE, id |-> "", code |-> 0, stage |-> stage, cause |-> cause]

Init ==
    /\ Idle
    /\ wire = NoWire /\ demux = NoDemux /\ bind = NoBind /\ build = NoBuild
    /\ isTerminal \in [Streams -> BOOLEAN]

\* contained_via_daemon: is_tty and the Tty
BuildTty ==
    /\ pc = "tty"
    /\ IF \A st \in Streams : isTerminal[st]
       THEN \/ \E size \in TermSizes :
                 /\ tty' = Tty(size[2], size[1])
                 /\ pc' = "create"
                 /\ UNCHANGED result
            \/ /\ result' = RunErr("terminal_size", Err("NetworkError", 0, NoMsg))
               /\ pc' = "done"
               /\ UNCHANGED tty
       ELSE /\ tty' = NoTty
            /\ pc' = "create"
            /\ UNCHANGED result
    /\ UNCHANGED <<isTerminal, termMode, termLog, reqs, container, exitCode,
                   waiter, attachRes, session, readPump, writePump, emitted,
                   forwarded, wpc, wres, chan, rx, sends, recvs, recvd,
                   createRes, startRes, removeRes, call, conns, proc, pureVars>>

\* contained_via_daemon: client.create_container(body).context(..)?
Create ==
    /\ pc = "create"
    /\ \E resp \in CreateResponses :
          LET res == CreateContainer(resp) IN
          /\ createRes' = res
          /\ container' = IF resp.transport = "ok" /\ resp.status = CREATED
                          THEN "created" ELSE container
          /\ IF res.ok
             THEN pc' = "rawmode" /\ UNCHANGED result
             ELSE /\ result' = RunErr("Unable to create container", res)
                  /\ pc' = "done"
    /\ reqs' = Append(reqs, "create")
    /\ conns' = Connect(conns, "create", "main")
    /\ UNCHANGED <<isTerminal, tty, termMode, termLog, exitCode,
                   waiter, attachRes, session, readPump, writePump, emitted,
                   forwarded, wpc, wres, chan, rx, sends, recvs, recvd,
                   startRes, removeRes, call, proc, pureVars>>

\* run_container_with_tty: io::stdout().into_raw_mode()? when a Tty is present
EnterRawMode ==
    /\ pc = "rawmode"
    /\ IF tty.some
       THEN \/ /\ termMode' = "raw"
               /\ termLog' = Append(termLog, "raw")
               /\ pc' = "attach"
               /\ UNCHANGED result
            \/ /\ result' = RunErr("into_raw_mode", Err("NetworkError", 0, NoMsg))
               /\ pc' = "done"
               /\ UNCHANGED <<termMode, termLog>>
       ELSE /\ pc' = "attach"
            /\ UNCHANGED <<termMode, termLog, result>>
    /\ UNCHANGED <<isTerminal, tty, reqs, container, exitCode,
                   waiter, attachRes, session, readPump, writePump, emitted,
                   forwarded, wpc, wres, chan, rx, sends, recvs, recvd,
                   createRes, startRes, removeRes, call, conns, proc, pureVars>>

(***************************************************************************)
(* attach_container, read_response, handle_raw / handle_multiplexed        *)
(***************************************************************************)
MULTIPLEXED_STREAM == "application/vnd.docker.multiplexed-stream"
RAW_STREAM == "application/vnd.docker.raw-stream"
\* a header value that is not valid UTF-8
NonUtf8 == "<non-utf8 bytes>"

AttachStatuses == {101, 200, 404, 500}
AttachContentTypes == {MULTIPLEXED_STREAM, RAW_STREAM, "text/plain", "", NonUtf8}
\* what the environment decides during one attach_container call
AttachInputs ==
    [connect : BOOLEAN,       \* UnixStream::connect succeeds
     send : BOOLEAN,          \* send_request succeeds
     read : Transports,       \* reading and parsing the response header
     status : AttachStatuses,
     content_type : AttachContentTypes,
     clone : BOOLEAN,         \* stream.try_clone succeeds
     spawnRead : BOOLEAN,     \* spawning the "read" thread succeeds
     spawnWrite : BOOLEAN]    \* spawning the "write" thread succeeds

AttachOutcome(res, state, multiplexed, read, write, panics) ==
    [res |-> res, state |-> state, multiplexed |-> multiplexed,
     read |-> read, write |-> write, panics |-> panics]

\* the header block of the attach response has been read and parsed
HeaderRead(a) == a.connect /\ a.send /\ a.read = "ok"

\* Faulty variant: the status of the attach response is not looked at.
ReadResponseAnyStatus(a) ==
    IF a.read # "ok"
    THEN [res |-> Err(a.read, 0, NoMsg), multiplexed |-> FALSE, panics |-> FALSE]
    ELSE IF a.content_type = MULTIPLEXED_STREAM
    THEN [res |-> Ok(Unit), multiplexed |-> TRUE, panics |-> FALSE]
    ELSE IF a.content_type = RAW_STREAM
    THEN [res |-> Ok(Unit), multiplexed |-> FALSE, panics |-> FALSE]
    ELSE [res |-> Err("InvalidResponse", a.status,
                      Msg("Unrecognized content-type from attach: ")),
          multiplexed |-> FALSE, panics |-> a.content_type = NonUtf8]

\* read_response: Ok(is_multiplexed), an error, or a panic (expect("UTF-8"))
ReadResponse(a) ==
    IF a.read # "ok"
    THEN [res |-> Err(a.read, 0, NoMsg), multiplexed |-> FALSE, panics |-> FALSE]
    ELSE IF ~is_informational(a.status)
    THEN [res |-> Err("InvalidResponse", a.status, Msg("reason")),
          multiplexed |-> FALSE, panics |-> FALSE]
    ELSE IF a.content_type = MULTIPLEXED_STREAM
    THEN [res |-> Ok(Unit), multiplexed |-> TRUE, panics |-> FALSE]
    ELSE IF a.content_type = RAW_STREAM
    THEN [res |-> Ok(Unit), multiplexed |-> FALSE, panics |-> FALSE]
    ELSE [res |-> Err("InvalidResponse", a.status,
                      Msg("Unrecognized content-type from attach: ")),
          multiplexed |-> FALSE, panics |-> a.content_type = NonUtf8]

\* handle_raw / handle_multiplexed: spawn "read", then "write"
HandleStream(a, multiplexed) ==
    IF ~a.spawnRead
    THEN AttachOutcome(Err("NetworkError", 0, NoMsg), "Classified", multiplexed,
                       FALSE, FALSE, FALSE)
    ELSE IF ~a.spawnWrite
    THEN AttachOutcome(Err("NetworkError", 0, NoMsg), "Pumping", multiplexed,
                       TRUE, FALSE, FALSE)
    ELSE AttachOutcome(Ok(Unit), "Pumping", multiplexed, TRUE, TRUE, FALSE)

AttachContainer(a) ==
    IF ~a.connect \/ ~a.send
    THEN AttachOutcome(Err("NetworkError", 0, NoMsg), "Connecting", FALSE,
                       FALSE, FALSE, FALSE)
    ELSE LET r == ReadResponse(a) IN
         IF ~r.res.ok
         THEN AttachOutcome(r.res, "HandshakeSent", FALSE, FALSE, FALSE, r.panics)
         ELSE IF ~a.clone
         THEN AttachOutcome(Err("NetworkError", 0, NoMsg), "Classified",
                            r.multiplexed, FALSE, FALSE, FALSE)
         ELSE HandleStream(a, r.multiplexed)

\* Faulty variant: the failure of attach is not propagated.
AttachFailedIgnored(res) == FALSE

\* run_container, after a failed attach: `?` returns the failure
AttachFailed(res) == ~res.ok

\* run_container: client.attach_container(&id, is_tty).context(..)?
Attach ==
    /\ pc = "attach"
    /\ reqs' = Append(reqs, "attach")
    /\ \E a \in AttachInputs :
          LET o == AttachContainer(a) IN
          /\ attachRes' = o.res
          /\ session' = [state |-> o.state, multiplexed |-> o.multiplexed,
                          status |-> IF HeaderRead(a) THEN a.status ELSE 0,
                          content_type |-> IF HeaderRead(a) THEN a.content_type ELSE ""]
          /\ readPump' = IF o.read THEN "running" ELSE "none"
          /\ conns' = IF a.connect
                       THEN Handed(Connect(conns, "attach", "main"), o.read, o.write)
                       ELSE conns
          /\ writePump' = IF o.write THEN "running" ELSE "none"
          /\ IF o.panics
             THEN \* the panic unwinds through run_container_with_tty and
                  \* drops the raw-mode guard, unless the build aborts on panic
                  /\ pc' = "panicked"
                  /\ UNCHANGED result
                  /\ \E unwinds \in BOOLEAN :
                        IF unwinds /\ tty.some
                        THEN /\ termMode' = "cooked"
                             /\ termLog' = Append(termLog, "restore")
                        ELSE UNCHANGED <<termMode, termLog>>
             ELSE /\ UNCHANGED <<termMode, termLog>>
                  /\ IF AttachFailed(o.res)
                     THEN /\ result' = RunErr("Unable to attach container", o.res)
                          /\ pc' = "restore"
                     ELSE /\ pc' = "spawn"
                          /\ UNCHANGED result
    /\ UNCHANGED <<isTerminal, tty, container, exitCode, waiter, emitted,
                   forwarded, wpc, wres, chan, rx, sends, recvs, recvd,
                   createRes, startRes, removeRes, call, proc, pureVars>>

\* run_container: mpsc::channel() and the spawn of the "wait" thread
SpawnWait ==
    /\ pc = "spawn"
    /\ \/ /\ wpc' = "spawned"
          /\ rx' = "alive"
          /\ pc' = "start"
          /\ UNCHANGED result
       \/ \* thread::Builder::spawn fails: `?` returns, both ends are dropped
          /\ rx' = "dropped"
          /\ result' = RunErr("spawn", Err("NetworkError", 0, NoMsg))
          /\ pc' = "restore"
          /\ UNCHANGED wpc
    /\ UNCHANGED <<isTerminal, tty, termMode, termLog, reqs, container, exitCode,
                   waiter, attachRes, session, readPump, writePump, emitted,
                   forwarded, wres, chan, sends, recvs, recvd,
                   createRes, startRes, removeRes, call, conns, proc, pureVars>>

\* Faulty variant: the failure of start is not propagated.
StartFailedIgnored(res) == FALSE

\* run_container, after a failed start: `?` returns the failure
StartFailed(res) == ~res.ok

\* run_container: client.start_container(&id).context(..)?
Start ==
    /\ pc = "start"
    /\ reqs' = Append(reqs, "start")
    /\ conns' = Connect(conns, "start", "main")
    /\ \E resp \in StartResponses, lost \in BOOLEAN :
          LET res == StartContainer(resp)
              \* the engine starts the container when it answers 2xx; when the
              \* connection fails the request may or may not have been served
              started == /\ container = "created"
                         /\ IF resp.transport = "ok"
                            THEN is_success(resp.status)
                            ELSE lost
          IN
          /\ startRes' = res
          /\ container' = IF started THEN "running" ELSE container
          /\ IF StartFailed(res)
             THEN /\ result' = RunErr("Unable to start container", res)
                  /\ rx' = "dropped"
                  /\ pc' = "restore"
             ELSE /\ pc' = "recv"
                  /\ UNCHANGED <<result, rx>>
    /\ UNCHANGED <<isTerminal, tty, termMode, termLog, exitCode,
                   waiter, attachRes, session, readPump, writePump, emitted,
                   forwarded, wpc, wres, chan, sends, recvs, recvd,
                   createRes, removeRes, call, proc, pureVars>>

\* Faulty variant: the receive does not notice that the sender is gone.
SenderGoneUnnoticed == FALSE

\* the sending end is gone and nothing was sent: the wait thread panicked
\* before its send
SenderGone == wpc = "panicked"

\* Faulty variant: the container is removed whatever the wait call returned.
WaitFailedIgnored(res) == FALSE

\* run_container, after recv: a failed wait returns the failure, no remove
WaitFailed(res) == ~res.ok

\* run_container: wait_rx.recv()?.context(..).map(..)?
Recv ==
    /\ pc = "recv"
    /\ \/ /\ chan # <<>>
          /\ recvd' = Head(chan)
          /\ chan' = Tail(chan)
          /\ recvs' = recvs + 1
          /\ IF WaitFailed(Head(chan))
             THEN /\ result' = RunErr("Unable to wait for container", Head(chan))
                  /\ rx' = "dropped"
                  /\ pc' = "restore"
             ELSE /\ pc' = "remove"
                  /\ UNCHANGED <<result, rx>>
       \/ /\ chan = <<>>
          /\ SenderGone
          /\ result' = RunErr("RecvError", NoResult)
          /\ rx' = "dropped"
          /\ pc' = "restore"
          /\ UNCHANGED <<recvd, chan, recvs>>
    /\ UNCHANGED <<isTerminal, tty, termMode, termLog, reqs, container, exitCode,
                   waiter, attachRes, session, readPump, writePump, emitted,
                   forwarded, wpc, wres, sends,
                   createRes, startRes, removeRes, call, conns, proc, pureVars>>

\* Faulty variant: the failure of remove is not propagated.
RemoveFailedIgnored(res) == FALSE

\* run_container, after a failed remove: `?` returns the failure
RemoveFailed(res) == ~res.ok

\* run_container: client.remove_container(&id).context(..)?; Ok(result)
Remove ==
    /\ pc = "remove"
    /\ reqs' = Append(reqs, "remove")
    /\ conns' = Connect(conns, "remove", "main")
    /\ \E resp \in RemoveResponses :
          LET res == RemoveContainer(resp) IN
          /\ removeRes' = res
          /\ container' = IF resp.transport = "ok" /\ is_success(resp.status)
                          THEN "removed" ELSE container
          /\ result' = IF RemoveFailed(res)
                       THEN RunErr("Unable to remove container", res)
                       ELSE RunOk(createRes.val.s, recvd.val.n)
    /\ rx' = "dropped"
    /\ pc' = "restore"
    /\ UNCHANGED <<isTerminal, tty, termMode, termLog, exitCode,
                   waiter, attachRes, session, readPump, writePump, emitted,
                   forwarded, wpc, wres, chan, sends, recvs, recvd,
                   createRes, startRes, call, proc, pureVars>>

\* Faulty variant: the guard is dropped on the success path only.
GuardDroppedOnSuccess(res) == res.ok

\* run_container_with_tty: the result of run_container is kept in a local
\* and drop(stdout) runs whatever that result is
GuardDropped(res) == TRUE

\* run_container_with_tty: drop(stdout) restores the terminal mode; result
RestoreTerminal ==
    /\ pc = "restore"
    /\ IF tty.some /\ GuardDropped(result)
       THEN /\ termMode' = "cooked"
            /\ termLog' = Append(termLog, "restore")
       ELSE UNCHANGED <<termMode, termLog>>
    /\ pc' = "done"
    /\ UNCHANGED <<isTerminal, tty, reqs, container, exitCode,
                   waiter, attachRes, session, readPump, writePump, emitted,
                   forwarded, wpc, wres, chan, rx, sends, recvs, recvd,
                   createRes, startRes, removeRes, result, call, conns, proc, pureVars>>

(***************************************************************************)
(* The "wait" thread:                                                      *)
(*   tx.send(DockerClient::new().unwrap().wait_container(&id_copy))        *)
(*     .expect("Unable to send wait result")                               *)
(***************************************************************************)
\* DockerClient::new().unwrap()
WaitNewClient ==
    /\ wpc = "spawned"
    /\ \/ wpc' = "ready"
       \/ wpc' = "panicked"
    /\ UNCHANGED <<pc, isTerminal, tty, termMode, termLog, reqs, container,
                   exitCode, waiter, attachRes, session, readPump, writePump,
                   emitted, forwarded, wres, chan, rx, sends, recvs, recvd,
                   createRes, startRes, removeRes, result, call, conns, proc, pureVars>>

\* wait_container: the request POST /containers/{id}/wait?condition=next-exit
\* is issued; the engine answers at once with a failure, or keeps the
\* request until the container's next exit
WaitRequest ==
    /\ wpc = "ready"
    /\ reqs' = Append(reqs, "wait")
    /\ conns' = Connect(conns, "wait", "wait")
    /\ \/ \E resp \in WaitErrorResponses :
             /\ wres' = WaitContainer(resp)
             /\ wpc' = "got"
             /\ UNCHANGED waiter
       \/ /\ waiter' = "registered"
          /\ wpc' = "blocked"
          /\ UNCHANGED wres
    /\ UNCHANGED <<pc, isTerminal, tty, termMode, termLog, container,
                   exitCode, attachRes, session, readPump, writePump,
                   emitted, forwarded, chan, rx, sends, recvs, recvd,
                   createRes, startRes, removeRes, result, call, proc, pureVars>>

\* wait_container: the engine's answer after the awaited exit is read
WaitResponse ==
    /\ wpc = "blocked"
    /\ waiter = "notified"
    /\ wres' = WaitContainer(WaitExitResponse(exitCode))
    /\ waiter' = "answered"
    /\ wpc' = "got"
    /\ UNCHANGED <<pc, isTerminal, tty, termMode, termLog, reqs, container,
                   exitCode, attachRes, session, readPump, writePump,
                   emitted, forwarded, chan, rx, sends, recvs, recvd,
                   createRes, startRes, removeRes, result, call, conns, proc, pureVars>>

\* Faulty variant: the result is sent twice.
WaitSendTwice ==
    /\ wpc = "got"
    /\ IF rx = "alive"
       THEN /\ chan' = Append(Append(chan, wres), wres)
            /\ sends' = sends + 2
            /\ wpc' = "done"
       ELSE /\ wpc' = "panicked"
            /\ UNCHANGED <<chan, sends>>
    /\ UNCHANGED <<pc, isTerminal, tty, termMode, termLog, reqs, container,
                   exitCode, waiter, attachRes, session, readPump, writePump,
                   emitted, forwarded, wres, rx, recvs, recvd,
                   createRes, startRes, removeRes, result, call, conns, proc, pureVars>>

\* tx.send(..).expect(..): the send fails when the receiver was dropped
WaitSend ==
    /\ wpc = "got"
    /\ IF rx = "alive"
       THEN /\ chan' = Append(chan, wres)
            /\ sends' = sends + 1
            /\ wpc' = "done"
       ELSE /\ wpc' = "panicked"
            /\ UNCHANGED <<chan, sends>>
    /\ UNCHANGED <<pc, isTerminal, tty, termMode, termLog, reqs, container,
                   exitCode, waiter, attachRes, session, readPump, writePump,
                   emitted, forwarded, wres, rx, recvs, recvd,
                   createRes, startRes, removeRes, result, call, conns, proc, pureVars>>

(***************************************************************************)
(* The engine                                                              *)
(***************************************************************************)
\* the container's process writes a chunk of output to the attach stream
EngineEmit ==
    /\ container = "running"
    /\ session.state \in {"Classified", "Pumping"}
    /\ emitted < MaxOut
    /\ emitted' = emitted + 1
    /\ UNCHANGED <<pc, isTerminal, tty, termMode, termLog, reqs, container,
                   exitCode, waiter, attachRes, session, readPump, writePump,
                   forwarded, wpc, wres, chan, rx, sends, recvs, recvd,
                   createRes, startRes, removeRes, result, call, conns, proc, pureVars>>

\* the container's process exits; a wait request registered before this
\* exit (condition=next-exit) is notified, one registered later is not
ContainerExit ==
    /\ container = "running"
    /\ container' = "exited"
    /\ \E code \in ExitCodes : exitCode' = code
    /\ waiter' = IF waiter = "registered" THEN "notified" ELSE waiter
    /\ UNCHANGED <<pc, isTerminal, tty, termMode, termLog, reqs,
                   attachRes, session, readPump, writePump, emitted,
                   forwarded, wpc, wres, chan, rx, sends, recvs, recvd,
                   createRes, startRes, removeRes, result, call, conns, proc, pureVars>>

(***************************************************************************)
(* The pump threads spawned by attach_container                            *)
(***************************************************************************)
\* read_raw_data / read_multiplexed_data: one chunk from the socket to the
\* local output
ReadPumpForward ==
    /\ readPump = "running"
    /\ forwarded < emitted
    /\ forwarded' = forwarded + 1
    /\ UNCHANGED <<pc, isTerminal, tty, termMode, termLog, reqs, container,
                   exitCode, waiter, attachRes, session, writePump,
                   emitted, readPump, wpc, wres, chan, rx, sends, recvs, recvd,
                   createRes, startRes, removeRes, result, call, conns, proc, pureVars>>

\* the read pump ends: end of stream once the engine has closed the attach
\* stream, or a failure that unwrap() turns into a panic of the thread
ReadPumpEnd ==
    /\ readPump = "running"
    /\ \/ /\ container \in {"exited", "removed"}
          /\ forwarded = emitted
          /\ readPump' = "done"
       \/ readPump' = "panicked"
    /\ UNCHANGED <<pc, isTerminal, tty, termMode, termLog, reqs, container,
                   exitCode, waiter, attachRes, session, writePump,
                   emitted, forwarded, wpc, wres, chan, rx, sends, recvs, recvd,
                   createRes, startRes, removeRes, result, call, conns, proc, pureVars>>

\* Faulty variant: the end of local stdin ends both pumps.
WritePumpEndsBoth ==
    /\ writePump = "running"
    /\ \/ writePump' = "done" /\ readPump' = IF readPump = "running" THEN "done" ELSE readPump
       \/ writePump' = "panicked" /\ UNCHANGED readPump
    /\ UNCHANGED <<pc, isTerminal, tty, termMode, termLog, reqs, container,
                   exitCode, waiter, attachRes, session,
                   emitted, forwarded, wpc, wres, chan, rx, sends, recvs, recvd,
                   createRes, startRes, removeRes, result, call, conns, proc, pureVars>>

\* write_data: the stdin pump ends at end of local stdin, or panics on a
\* failed write
WritePumpEnd ==
    /\ writePump = "running"
    /\ \/ writePump' = "done"
       \/ writePump' = "panicked"
    /\ UNCHANGED <<pc, isTerminal, tty, termMode, termLog, reqs, container,
                   exitCode, waiter, attachRes, session, readPump,
                   emitted, forwarded, wpc, wres, chan, rx, sends, recvs, recvd,
                   createRes, startRes, removeRes, result, call, conns, proc, pureVars>>

\* what main returns: the exit status of Ok(code), 1 for Err(error)
Termination(res, code) == IF res.ok THEN code ELSE 1

\* main of contained: let (_, status_code) = contained::run(..)?;
\* Ok(ExitCode::from(status_code))
MainContained ==
    /\ pc = "done"
    /\ ~proc.ended
    /\ proc' = Exited("contained", Termination(result, result.code))
    /\ UNCHANGED <<pc, isTerminal, tty, termMode, termLog, reqs, container,
                   exitCode, waiter, attachRes, session, readPump, writePump,
                   emitted, forwarded, wpc, wres, chan, rx, sends, recvs, recvd,
                   createRes, startRes, removeRes, result, call, conns, pureVars>>

\* main of contained-d: contained::contained_via_daemon(..)?;
\* Ok(ExitCode::SUCCESS)
MainContainedD ==
    /\ pc = "done"
    /\ ~proc.ended
    /\ proc' = Exited("contained-d", Termination(result, 0))
    /\ UNCHANGED <<pc, isTerminal, tty, termMode, termLog, reqs, container,
                   exitCode, waiter, attachRes, session, readPump, writePump,
                   emitted, forwarded, wpc, wres, chan, rx, sends, recvs, recvd,
                   createRes, startRes, removeRes, result, call, conns, pureVars>>

MainThread ==
    \/ MainContained
    \/ MainContainedD
    \/ BuildTty
    \/ Create
    \/ EnterRawMode
    \/ Attach
    \/ SpawnWait
    \/ Start
    \/ Recv
    \/ Remove
    \/ RestoreTerminal

WaitThread ==
    \/ WaitNewClient
    \/ WaitRequest
    \/ WaitResponse
    \/ WaitSend

Engine == EngineEmit \/ ContainerExit

Pumps == ReadPumpForward \/ ReadPumpEnd \/ WritePumpEnd

Next == MainThread \/ WaitThread \/ Engine \/ Pumps

Spec == Init /\ [][Next]_vars

\* Every thread that can take a step eventually takes one (OS scheduling),
\* and the engine answers the requests it can answer.  Nothing forces the
\* container to produce output or to exit, nor local stdin to end.
FairSpec ==
    /\ Spec
    /\ WF_vars(MainThread)
    /\ WF_vars(WaitThread)
    /\ WF_vars(ReadPumpForward)

(***************************************************************************)
(* Claims about the run (checked under Spec)                               *)
(***************************************************************************)
Issued(r) == \E i \in DOMAIN reqs : reqs[i] = r
Count(r) == Cardinality({i \in DOMAIN reqs : reqs[i] = r})
\* every request r1 in the history has a request r0 before it
Precedes(r0, r1) ==
    \A i \in DOMAIN reqs : reqs[i] = r1 => \E j \in 1..(i - 1) : reqs[j] = r0

\* C1: the start request is issued only after attach_container has returned
\* successfully (request sent, informational response read and classified);
\* if attach fails, start is never issued.
C1_StartOnlyAfterAttach ==
    Issued("start") =>
        /\ attachRes.ok
        /\ session.state = "Pumping"
        /\ Precedes("attach", "start")

C1_Witness ==
    /\ Issued("start")
    /\ attachRes.ok
    /\ session.multiplexed

C3_NoMissedExit ==
    ~(/\ pc = "recv"
      /\ container = "exited"
      /\ wpc = "blocked"
      /\ waiter = "registered")

\* C3 as a progress property (under FairSpec): once the container has
\* exited, the blocking receive returns.
C3_RecvReturns == (pc = "recv" /\ container = "exited") ~> (pc # "recv")

\* C4: a remove request is issued only after the channel has delivered a
\* successful exit code: if attach, start or wait fails, or the receive
\* fails, no remove is ever issued and the container is left in place.
C4_RemoveOnlyAfterExitCode ==
    /\ Issued("remove") =>
          /\ recvs = 1
          /\ recvd.ok
          /\ attachRes.ok
          /\ startRes.ok
          /\ Precedes("wait", "remove")
    /\ container = "removed" => Issued("remove")

C4_Witness ==
    /\ Issued("remove")
    /\ recvd = Ok(SomeNum(137))

\* C5: no engine call is retried: each of create, attach, start, wait and
\* remove is issued at most once, and a failure of create, attach or start
\* ends the run with that failure at once, the main flow issuing no later
\* stage.
C5_NoRetryFailFast ==
    /\ \A r \in {"create", "attach", "start", "wait", "remove"} : Count(r) <= 1
    /\ (Issued("create") /\ ~createRes.ok) =>
          /\ reqs = <<"create">>
          /\ pc = "done"
          /\ result = RunErr("Unable to create container", createRes)
    /\ (Issued("attach") /\ ~attachRes.ok /\ pc # "panicked") =>
          /\ reqs = <<"create", "attach">>
          /\ pc \in {"restore", "done"}
          /\ result = RunErr("Unable to attach container", attachRes)
    /\ (Issued("start") /\ ~startRes.ok) =>
          /\ ~Issued("remove")
          /\ pc \in {"restore", "done"}
          /\ result = RunErr("Unable to start container", startRes)

C5_Witness ==
    /\ Issued("start")
    /\ ~startRes.ok
    /\ Issued("wait")
    /\ pc = "done"

\* C6: raw mode is entered only when a Tty is present; whenever it was
\* entered the terminal mode is restored before run_container_with_tty
\* returns, on the success path and on every error path; without a Tty the
\* terminal mode is never changed.
C6_RawModeScoped ==
    /\ termMode = "raw" => tty.some
    /\ ~tty.some => termLog = <<>>
    /\ pc = "done" =>
          /\ termMode = "cooked"
          /\ termLog \in {<<>>, <<"raw", "restore">>}
          /\ (tty.some /\ Issued("attach")) => termLog = <<"raw", "restore">>

C6_Witness ==
    /\ pc = "done"
    /\ termLog = <<"raw", "restore">>
    /\ result = RunErr("Unable to start container", startRes)

(***************************************************************************)
(* SpecWire: make_request reading one response off the socket              *)
(* (docker_client.rs 345-402).                                             *)
(*                                                                         *)
(* The response is a sequence of bytes: a header block that ends with an   *)
(* empty line, followed by the bytes of the body.  The bytes reach the     *)
(* socket in segments: a read returns the rest of the current segment, cut *)
(* to the space it is given.  The fields of the header block (status,      *)
(* Content-Type, Content-Length, Transfer-Encoding) are carried beside the *)
(* bytes.  The buffer is the sequence of the bytes written to it; the      *)
(* bytes of the array after them are still 0.                              *)
(***************************************************************************)
BUFFER_SIZE == 1024
\* number of places at which the bytes of a response are split into segments
MaxCuts == 3

CR == "CR"
LF == "LF"
\* the byte 0 of the part of the buffer that was never written
NUL == "NUL"

Min(a, b) == IF a <= b THEN a ELSE b
SetMin(S) == CHOOSE x \in S : \A y \in S : x <= y

\* status line and header lines ("h"), then the empty line
HeaderBlock == <<"h", CR, LF, CR, LF>>
\* header lines of BUFFER_SIZE bytes, then the empty line
BigHeaderBlock == [i \in 1..BUFFER_SIZE |-> "h"] \o <<CR, LF, CR, LF>>
ShortText == <<"{", "x", "}">>
LongText == <<"{">> \o [i \in 1..10 |-> "x"] \o <<"}">>

\* serde_json::from_slice on the texts of the model: a text cut short or
\* followed by 0 bytes is not a JSON text
ParseJson(bytes) ==
    IF bytes = ShortText THEN JsonBody(Object(NoMembers))
    ELSE IF bytes = LongText THEN JsonBody(Object(WithMember("Id", Str(ContainerId))))
    ELSE IF bytes = <<"1">> THEN JsonBody(Plain(UInt(1)))
    ELSE IF bytes = <<"1", "2">> THEN JsonBody(Plain(UInt(12)))
    ELSE BadBody

\* a response on the wire; cl = 0 stands for no Content-Length header
WireResponse(kind, chunked, cl, rest) ==
    [kind |-> kind, hdr |-> HeaderBlock, chunked |-> chunked, cl |-> cl, rest |-> rest]

WireResponses ==
    { \* header block + one chunk-size line + chunk data
      WireResponse("chunk", TRUE, 0, <<"3", CR, LF>> \o ShortText),
      \* the same, followed by the end of the chunk and the last chunk
      WireResponse("chunk+last", TRUE, 0,
                   <<"3", CR, LF>> \o ShortText \o <<CR, LF, "0", CR, LF, CR, LF>>),
      \* two data chunks, "1" and "2", of the JSON text 12
      WireResponse("chunks:12", TRUE, 0,
                   <<"1", CR, LF, "1", CR, LF, "1", CR, LF, "2">>),
      \* two data chunks, "{" and "x}", of the short text
      WireResponse("chunks:{x}", TRUE, 0,
                   <<"1", CR, LF, "{", CR, LF, "2", CR, LF, "x", "}">>),
      \* Content-Length smaller than the header block
      WireResponse("length", FALSE, 3, ShortText),
      \* Content-Length of more than twice the header block
      WireResponse("long", FALSE, 12, LongText),
      \* no body
      WireResponse("empty", FALSE, 0, <<>>),
      \* Content-Length of more than the buffer, the body on its way
      WireResponse("huge", FALSE, BUFFER_SIZE + 6, ShortText),
      \* header lines that do not end within the buffer
      [WireResponse("bigheader", FALSE, 0, <<>>) EXCEPT !.hdr = BigHeaderBlock],
      \* nothing at all
      [WireResponse("nothing", FALSE, 0, <<>>) EXCEPT !.hdr = <<>>] }

WireStatuses == {200, 404}
WireContentTypes == {"application/json", "Application/JSON", "text/plain", ""}

Stream(sc) == sc.hdr \o sc.rest
Total(sc) == Len(sc.hdr) + Len(sc.rest)

\* the scenarios of a response: its status and content type, where its
\* bytes are split, and whether the peer closes the connection after the
\* last byte
CutPlaces(r) ==
    IF Total(r) > BUFFER_SIZE THEN {1, BUFFER_SIZE} ELSE 1..(Total(r) - 1)

Scenarios(r) ==
    { [resp |-> r, status |-> st, content_type |-> ct, cuts |-> c, close |-> cl] :
        st \in WireStatuses,
        ct \in WireContentTypes,
        c \in { k \in SUBSET CutPlaces(r) : Cardinality(k) <= MaxCuts },
        cl \in BOOLEAN }

\* the scenario's cuts lie inside its response
WellFormed(sc) == \A c \in sc.cuts : c < Total(sc.resp)

\* stream.read(&mut buffer[..space]) at position pos: it blocks when nothing
\* has arrived and the peer has not closed
CanRead(sc, pos, space) == space = 0 \/ pos < Total(sc.resp) \/ sc.close
ReadLen(sc, pos, space) ==
    IF space = 0 \/ pos >= Total(sc.resp) THEN 0
    ELSE Min(space, SetMin({c \in sc.cuts : c > pos} \cup {Total(sc.resp)}) - pos)

\* buffer[i], i counted from 0
BufAt(buf, i) == IF i < Len(buf) THEN buf[i + 1] ELSE NUL
\* &buffer[from..to]
Slice(buf, from, to) == [i \in 1..(to - from) |-> BufAt(buf, from + i - 1)]

\* httparse::Response::parse(&buffer) over the whole array: Complete with
\* the size of the header block when the empty line is there, an error at
\* the first 0 byte when it is not, Partial when the array is full
ParseResponse(buf) ==
    LET ends == {i \in 4..Len(buf) :
                    /\ buf[i - 3] = CR
                    /\ buf[i - 2] = LF
                    /\ buf[i - 1] = CR
                    /\ buf[i] = LF}
    IN  IF ends # {} THEN [st |-> "Complete", n |-> SetMin(ends)]
        ELSE IF Len(buf) < BUFFER_SIZE THEN [st |-> "Error", n |-> 0]
        ELSE [st |-> "Partial", n |-> 0]

HexDigit(b) ==
    CASE b = "0" -> 0 [] b = "1" -> 1 [] b = "2" -> 2 [] b = "3" -> 3
      [] b = "4" -> 4 [] b = "5" -> 5 [] b = "6" -> 6 [] b = "7" -> 7
      [] b = "8" -> 8 [] b = "9" -> 9 [] b = "a" -> 10 [] b = "b" -> 11
      [] b = "c" -> 12 [] b = "d" -> 13 [] b = "e" -> 14 [] b = "f" -> 15
      [] OTHER -> -1

RECURSIVE HexAcc(_, _, _)
HexAcc(seq, i, acc) ==
    IF i > Len(seq) \/ HexDigit(seq[i]) < 0 THEN acc
    ELSE HexAcc(seq, i + 1, acc * 16 + HexDigit(seq[i]))
\* usize::from_radix_16_checked(..).0: the value of the leading hex digits,
\* 0 when there is none
from_radix_16_checked(seq) == HexAcc(seq, 1, 0)

NoBytes == [some |-> FALSE, bytes |-> <<>>]
SomeBytes(b) == [some |-> TRUE, bytes |-> b]

\* the state of one make_request
WireState(at, sc, buf, bytes_read, header_size, pos, bodyReads, body, ret) ==
    [pc |-> at, sc |-> sc, buf |-> buf, bytes_read |-> bytes_read,
     header_size |-> header_size, pos |-> pos, bodyReads |-> bodyReads,
     body |-> body, ret |-> ret]

NoRet == Failed(NoResult)

InitWire ==
    /\ Idle
    /\ isTerminal = [st \in Streams |-> FALSE]
    /\ demux = NoDemux /\ bind = NoBind /\ build = NoBuild
    /\ \E r \in WireResponses : \E sc \in Scenarios(r) :
          /\ WellFormed(sc)
          /\ wire = WireState("header", sc, <<>>, 0, 0, 0, 0, NoBytes, NoRet)

\* one turn of the loop of make_request: read into the free part of the
\* buffer, parse the whole buffer
WireHeaderRead ==
    /\ wire.pc = "header"
    /\ CanRead(wire.sc, wire.pos, BUFFER_SIZE - wire.bytes_read)
    /\ LET n == ReadLen(wire.sc, wire.pos, BUFFER_SIZE - wire.bytes_read)
           buf == wire.buf \o SubSeq(Stream(wire.sc.resp), wire.pos + 1, wire.pos + n)
           p == ParseResponse(buf)
           w == [wire EXCEPT !.buf = buf, !.bytes_read = @ + n, !.pos = @ + n]
       IN  wire' = CASE p.st = "Complete" ->
                          [w EXCEPT !.pc = "body", !.header_size = p.n]
                     [] p.st = "Error" ->
                          [w EXCEPT !.pc = "done",
                                    !.ret = Failed(Err("HttpError", 0, NoMsg))]
                     [] OTHER -> w
    /\ UNCHANGED <<runVars, call, demux, bind, build>>

\* what a branch of the body stage comes to: the buffer and the position on
\* the socket after its reads, and the slice taken as the body
Branch(st, buf, pos, body) == [st |-> st, buf |-> buf, pos |-> pos, body |-> body]

\* content_length > 0: read_exact into buffer[bytes_read..(content_length -
\* header_size)] when the body is not yet in the buffer, then take
\* buffer[header_size..(header_size + content_length)]
LengthBranch(w) ==
    LET cl == w.sc.resp.cl
        H == w.header_size
        end == cl - H
        need == end - w.bytes_read
        avail == Total(w.sc.resp) - w.pos
        got(k) == w.buf \o SubSeq(Stream(w.sc.resp), w.pos + 1, w.pos + k)
    IN  IF cl > w.bytes_read - H
        THEN IF end < 0 \/ end < w.bytes_read \/ end > BUFFER_SIZE
             THEN Branch("panic", w.buf, w.pos, NoBytes)
             ELSE IF avail >= need
             THEN IF H + cl > BUFFER_SIZE
                  THEN Branch("panic", got(need), w.pos + need, NoBytes)
                  ELSE Branch("ok", got(need), w.pos + need,
                              SomeBytes(Slice(got(need), H, H + cl)))
             ELSE IF w.sc.close
             THEN Branch("NetworkError", got(avail), w.pos + avail, NoBytes)
             ELSE Branch("blocked", w.buf, w.pos, NoBytes)
        ELSE Branch("ok", w.buf, w.pos, SomeBytes(Slice(w.buf, H, H + cl)))

\* Transfer-Encoding: chunked: one more read, the chunk size from
\* header_size up to the first CR, the chunk data after the CR LF
ChunkedBranch(w) ==
    LET H == w.header_size
        space == BUFFER_SIZE - w.bytes_read
        n == ReadLen(w.sc, w.pos, space)
        buf == w.buf \o SubSeq(Stream(w.sc.resp), w.pos + 1, w.pos + n)
        limit == w.bytes_read + n
        crs == {i \in H..limit : BufAt(buf, i) = CR}
        chunk_size_end == IF crs # {} THEN SetMin(crs) ELSE limit + 1
        chunk_size == from_radix_16_checked(Slice(buf, H, chunk_size_end))
    IN  IF ~CanRead(w.sc, w.pos, space)
        THEN Branch("blocked", w.buf, w.pos, NoBytes)
        ELSE IF chunk_size_end >= BUFFER_SIZE
                \/ chunk_size_end + 2 + chunk_size > BUFFER_SIZE
        THEN Branch("panic", buf, w.pos + n, NoBytes)
        ELSE Branch("ok", buf, w.pos + n,
                    SomeBytes(Slice(buf, chunk_size_end + 2,
                                    chunk_size_end + 2 + chunk_size)))

BodyBranch(w) ==
    IF w.sc.resp.cl > 0 THEN LengthBranch(w)
    ELSE IF w.sc.resp.chunked THEN ChunkedBranch(w)
    ELSE Branch("ok", w.buf, w.pos, NoBytes)

\* the body stage of make_request and its return
WireBody ==
    /\ wire.pc = "body"
    /\ LET b == BodyBranch(wire)
           w == [wire EXCEPT !.buf = b.buf, !.pos = b.pos,
                             !.bodyReads = b.pos - wire.pos, !.body = b.body]
           body == IF b.body.some THEN ParseJson(b.body.bytes) ELSE NoBody
       IN  /\ b.st # "blocked"
           /\ wire' = CASE b.st = "panic" -> [w EXCEPT !.pc = "panicked"]
                        [] b.st = "ok" ->
                             [w EXCEPT !.pc = "done",
                                       !.ret = MakeRequest(Response("ok", wire.sc.status,
                                                    wire.sc.content_type, body))]
                        [] OTHER ->
                             [w EXCEPT !.pc = "done",
                                       !.ret = Failed(Err(b.st, 0, NoMsg))]
    /\ UNCHANGED <<runVars, call, demux, bind, build>>

NextWire == WireHeaderRead \/ WireBody

SpecWire == InitWire /\ [][NextWire]_vars

\* the thread that runs make_request keeps running: its loop takes its next
\* turn whenever the read of that turn can return
FairWire == SpecWire /\ WF_vars(WireHeaderRead)


(***************************************************************************)
(* Claims about make_request on the wire (checked under SpecWire)          *)
(***************************************************************************)
\* the make_request has returned or has panicked
WireEnded == wire # NoWire /\ wire.pc \in {"done", "panicked"}
\* the response is header block + one chunk-size line + chunk data
OneChunk == wire # NoWire /\ wire.sc.resp.kind = "chunk"

\* C11: for a chunked response (header block + one chunk-size line + chunk
\* data) split across any number of socket reads at any positions, the body
\* make_request takes is exactly the original chunk payload.
C11_ChunkReassembled ==
    (OneChunk /\ WireEnded) => wire.body = SomeBytes(ShortText)


\* the response declares a Content-Length n > 0 and its header block has
\* been parsed
HasLength == wire # NoWire /\ wire.sc.resp.cl > 0 /\ wire.header_size > 0
\* body bytes that came into the buffer with the header block
Buffered == wire.bytes_read - wire.header_size
\* body bytes still to come when the header block has been parsed
Missing == IF wire.sc.resp.cl > Buffered THEN wire.sc.resp.cl - Buffered ELSE 0

\* C12: with Content-Length n > 0 the body is exactly the n bytes after the
\* header block; make_request reads exactly the missing bytes from the
\* socket, and nothing when all n were buffered with the headers.
C12_ContentLengthBody ==
    (HasLength /\ WireEnded) =>
        /\ wire.body = SomeBytes(wire.sc.resp.rest)
        /\ wire.bodyReads = Missing


\* make_request has returned
WireReturned == wire # NoWire /\ wire.pc = "done"
\* the declared content type is JSON
DeclaredJson == eq_ignore_ascii_case(wire.sc.content_type, APPLICATION_JSON)
\* the response has no body: no Content-Length above 0, not chunked
Bodiless == wire.header_size > 0 /\ wire.sc.resp.cl = 0 /\ ~wire.sc.resp.chunked

\* C13: make_request returns (status, Some(parsed JSON)) when a body is
\* present and the declared content type is JSON (and the body is a JSON
\* text), an error when a body is present with any other or no content
\* type, and (status, None) when the response has no body.
C13_BodyByContentType ==
    WireReturned =>
        /\ (wire.body.some /\ DeclaredJson /\ ParseJson(wire.body.bytes).parses)
              => wire.ret = Delivered(wire.sc.status, TRUE,
                                      ParseJson(wire.body.bytes).json)
        /\ (wire.body.some /\ ~DeclaredJson)
              => (~wire.ret.ok /\ wire.ret.error.err = "InvalidResponse")
        /\ Bodiless => wire.ret = Delivered(wire.sc.status, FALSE, JNull)

\* a body under a content type that is not JSON has been turned down, on a
\* response whose body is a JSON text
C13_Witness ==
    /\ WireReturned
    /\ wire.body.some
    /\ ParseJson(wire.body.bytes).parses
    /\ wire.sc.content_type = "text/plain"
    /\ ~wire.ret.ok

\* the response has two or more data chunks
ManyChunks == wire.sc.resp.kind \in {"chunks:12", "chunks:{x}"}
\* where the first chunk of a chunked response ends: the header block, the
\* chunk-size line of one digit, the chunk data
FirstChunkEnd(resp) == Len(resp.hdr) + 3 + HexDigit(resp.rest[1])
\* the body was taken before the whole first chunk had arrived
FirstChunkMissing == wire.header_size > 0 /\ wire.pos < FirstChunkEnd(wire.sc.resp)

\* C26: on a chunked body that is not exactly one chunk (two or more data
\* chunks, or a first chunk that is not fully available) make_request
\* fails with an error; it never returns a truncated body.
C26_NotOneChunkFails ==
    (/\ WireReturned
     /\ wire.sc.resp.chunked
     /\ ManyChunks \/ FirstChunkMissing) => ~wire.ret.ok


(***************************************************************************)
(* Claims about the attach handshake (checked under Spec)                  *)
(***************************************************************************)
\* attach_container has read the header block of the attach response
HandshakeAnswered == session.status # 0

\* C14: the attach handshake succeeds only on an informational (1xx)
\* status; on every other status attach_container returns an error and the
\* session is never classified and never pumps.
C14_HandshakeNeeds1xx ==
    /\ (Issued("attach") /\ attachRes.ok) => is_informational(session.status)
    /\ (HandshakeAnswered /\ ~is_informational(session.status)) =>
          /\ ~attachRes.ok
          /\ attachRes.err = "InvalidResponse"
          /\ session.state = "HandshakeSent"
          /\ readPump = "none"
          /\ writePump = "none"

\* the engine answered the attach with 200 and a recognised content type
C14_Witness ==
    /\ session.status = 200
    /\ session.content_type = RAW_STREAM
    /\ ~attachRes.ok


\* the attach response carried an informational status
HandshakeAccepted == HandshakeAnswered /\ is_informational(session.status)
Recognised == {MULTIPLEXED_STREAM, RAW_STREAM}
\* attach_container has returned an error
AttachReturnedErr == ~attachRes.ok /\ attachRes.err # "none" /\ pc # "panicked"

\* C15: the session is classified from the content type of the attach
\* response, multiplexed or raw for the two recognised values; for any other
\* or missing content type attach_container returns an error before any
\* pump thread is spawned; pump threads exist only in a classified session.
C15_ClassifiedByContentType ==
    /\ (HandshakeAccepted /\ session.content_type \in Recognised) =>
          /\ session.state \in {"Classified", "Pumping"}
          /\ session.multiplexed = (session.content_type = MULTIPLEXED_STREAM)
    /\ (HandshakeAccepted /\ session.content_type \notin Recognised) =>
          /\ AttachReturnedErr
          /\ attachRes.err = "InvalidResponse"
          /\ session.state = "HandshakeSent"
          /\ readPump = "none"
          /\ writePump = "none"
    /\ (readPump # "none" \/ writePump # "none") =>
          /\ session.state = "Pumping"
          /\ session.content_type \in Recognised


(***************************************************************************)
(* SpecDemux: the "read" thread of an attach session, read_multiplexed_data *)
(* or read_raw_data + copy_stream (docker_client.rs 229-314).              *)
(*                                                                         *)
(* The stream is the bytes that follow the header block of the attach      *)
(* response.  Some of them came into the handshake buffer with the header  *)
(* block (first = buffer[header_size..bytes_read]); the others are read    *)
(* from the socket (sock).  A byte is a number 0..255.                      *)
(***************************************************************************)
\* frames in a stream
MaxFrames == 2
\* payload bytes in a frame
MaxPayload == 1
\* bytes missing at the end of a stream that is cut short
MaxTrunc == 1

Byte == 256
\* size of a frame header
FRAME_HEADER == 8

\* the 4 bytes of a u32, big-endian
BE32(n) == <<(n \div (Byte * Byte * Byte)) % Byte, (n \div (Byte * Byte)) % Byte,
             (n \div Byte) % Byte, n % Byte>>

\* frame number i of a stream: its payload bytes are told apart by i
Payload(i, len) == [k \in 1..len |-> 10 * i + k]
Frame(type, payload) == <<type, 0, 0, 0>> \o BE32(Len(payload)) \o payload

\* type byte and payload length of each frame
\* the three stream types and a byte that is none of them
FrameTypes == {0, 1, 2, 255}
FrameShapes == [type : FrameTypes, len : 0..MaxPayload]
FrameLists == UNION { [1..n -> FrameShapes] : n \in 0..MaxFrames }

RECURSIVE Flatten(_, _)
Flatten(shapes, i) ==
    IF i > Len(shapes) THEN <<>>
    ELSE Frame(shapes[i].type, Payload(i, shapes[i].len)) \o Flatten(shapes, i + 1)

\* Faulty variant: the frame size is read little-endian.
read_u32_le(b) ==
    b[1] + b[2] * Byte + b[3] * Byte * Byte + b[4] * Byte * Byte * Byte

\* BigEndian::read_u32 (the frame sizes of the model are far below 2^31)
read_u32(b) ==
    b[1] * Byte * Byte * Byte + b[2] * Byte * Byte + b[3] * Byte + b[4]

\* Faulty variant: an unknown stream type is taken as Stdout.
read_frame_header_lenient(buffer) ==
    [ok |-> TRUE,
     type |-> CASE buffer[1] = 0 -> "Stdin" [] buffer[1] = 2 -> "Stderr"
                [] OTHER -> "Stdout",
     size |-> read_u32(SubSeq(buffer, 5, 8)),
     byte |-> buffer[1]]

\* read_frame_header: Ok((stream_type, size)) or Err(InvalidStream(buffer[0]))
read_frame_header(buffer) ==
    IF buffer[1] \in {0, 1, 2}
    THEN [ok |-> TRUE,
          type |-> CASE buffer[1] = 0 -> "Stdin" [] buffer[1] = 1 -> "Stdout"
                     [] OTHER -> "Stderr",
          size |-> read_u32(SubSeq(buffer, 5, 8)),
          byte |-> buffer[1]]
    ELSE [ok |-> FALSE, type |-> "Stdin", size |-> 0, byte |-> buffer[1]]

\* buffer[header_size..bytes_read].chain(stream): what is left to read
Chain(d) == d.first \o d.sock
\* the reader after n bytes have been read from it
Advance(d, n) ==
    [d EXCEPT !.first = SubSeq(d.first, n + 1, Len(d.first)),
              !.sock = IF n <= Len(d.first) THEN d.sock
                       ELSE SubSeq(d.sock, n - Len(d.first) + 1, Len(d.sock))]


\* the state of one read thread: the frames the stream was made of, the
\* number of bytes cut off its end, the number of bytes that were buffered
\* with the header block, what is left in the buffer and on the
\* socket, whether the peer closes the socket after the last byte, what was
\* written to the local stdout and stderr, the read or write that failed (io)
\* and what the function returned
DemuxState(at, mode, shapes, trunc, first, sock, close) ==
    [pc |-> at, mode |-> mode, shapes |-> shapes, trunc |-> trunc,
     buffered |-> Len(first), first |-> first, sock |-> sock, close |-> close,
     stdout |-> <<>>, stderr |-> <<>>, io |-> "none", ret |-> NoResult]

\* the bytes of the stream: the frames, cut short by trunc bytes
StreamBytes(shapes, trunc) ==
    SubSeq(Flatten(shapes, 1), 1, Len(Flatten(shapes, 1)) - trunc)

InitDemux ==
    /\ Idle
    /\ isTerminal = [st \in Streams |-> FALSE]
    /\ wire = NoWire /\ bind = NoBind /\ build = NoBuild
    /\ \E shapes \in FrameLists, trunc \in 0..MaxTrunc, close \in BOOLEAN,
          mode \in {"multiplexed", "raw"} :
          /\ trunc <= Len(Flatten(shapes, 1))
          \* a raw stream has no frames: its bytes are taken as they come
          /\ mode = "raw" => \A i \in 1..Len(shapes) : shapes[i].type = 1
          /\ \E buffered \in 0..Len(StreamBytes(shapes, trunc)) :
                LET s == StreamBytes(shapes, trunc) IN
                demux = DemuxState(IF mode = "raw" THEN "start" ELSE "loop",
                                   mode, shapes, trunc,
                                   SubSeq(s, 1, buffered),
                                   SubSeq(s, buffered + 1, Len(s)), close)

\* the next frame header, when 8 bytes are there to be read
NextHeader(d) == read_frame_header(SubSeq(Chain(d), 1, FRAME_HEADER))

\* one turn of the loop of read_multiplexed_data; a read_exact that waits
\* for bytes on an open socket does not return
DemuxFrame ==
    /\ demux.pc = "loop"
    /\ demux.mode = "multiplexed"
    /\ LET avail == Len(Chain(demux)) IN
       IF avail < FRAME_HEADER
       THEN \* read_exact(&mut frame_header) meets the end of the stream
            /\ demux.close
            /\ demux' = [Advance(demux, avail) EXCEPT !.pc = "done", !.ret = Ok(Unit)]
       ELSE LET h == NextHeader(demux)
                d == Advance(demux, FRAME_HEADER)
            IN  IF ~h.ok
                THEN demux' = [d EXCEPT !.pc = "done",
                                        !.ret = Err("InvalidStream", h.byte, NoMsg)]
                ELSE IF Len(Chain(d)) < h.size
                THEN \* read_exact(&mut frame) meets the end of the stream
                     /\ demux.close
                     /\ demux' = [Advance(d, Len(Chain(d))) EXCEPT
                                     !.pc = "done",
                                     !.ret = Err("NetworkError", 0, NoMsg)]
                ELSE LET frame == SubSeq(Chain(d), 1, h.size) IN
                     demux' = IF h.type \in {"Stdin", "Stdout"}
                              THEN [Advance(d, h.size) EXCEPT !.stdout = @ \o frame]
                              ELSE [Advance(d, h.size) EXCEPT !.stderr = @ \o frame]
    /\ UNCHANGED <<runVars, call, wire, bind, build>>

\* Faulty variant: the bytes buffered with the header block are dropped.
RawBufferedDropped ==
    /\ demux.pc = "start"
    /\ demux.mode = "raw"
    /\ demux' = [Advance(demux, Len(demux.first)) EXCEPT !.pc = "loop"]
    /\ UNCHANGED <<runVars, call, wire, bind, build>>

\* read_raw_data: the buffered bytes go to stdout before copy_stream starts
RawBuffered ==
    /\ demux.pc = "start"
    /\ demux.mode = "raw"
    /\ demux' = [Advance(demux, Len(demux.first)) EXCEPT
                    !.pc = "loop", !.stdout = @ \o demux.first]
    /\ UNCHANGED <<runVars, call, wire, bind, build>>

\* one turn of the loop of copy_stream: a read returns some of the bytes
\* that have arrived, or 0 at the end of the stream
RawCopy ==
    /\ demux.pc = "loop"
    /\ demux.mode = "raw"
    /\ IF demux.sock = <<>>
       THEN /\ demux.close
            /\ demux' = [demux EXCEPT !.pc = "done", !.ret = Ok(Unit)]
       ELSE \E n \in 1..Min(Len(demux.sock), BUFFER_SIZE) :
               demux' = [Advance(demux, n) EXCEPT
                            !.stdout = @ \o SubSeq(demux.sock, 1, n)]
    /\ UNCHANGED <<runVars, call, wire, bind, build>>

\* a read from the socket fails with an error other than the end of the
\* stream: `?` or the Err(e) arm returns NetworkError
DemuxReadFails ==
    /\ demux.pc = "loop"
    /\ demux.sock # <<>>
    /\ IF demux.mode = "raw" \/ Len(demux.first) < FRAME_HEADER
       THEN TRUE
       ELSE /\ NextHeader(demux).ok
            /\ Len(demux.first) < FRAME_HEADER + NextHeader(demux).size
    /\ demux' = [demux EXCEPT !.pc = "done", !.io = "read",
                               !.ret = Err("NetworkError", 0, NoMsg)]
    /\ UNCHANGED <<runVars, call, wire, bind, build>>

\* write_all or flush on the local stdout / stderr fails
DemuxWriteFails ==
    /\ demux.pc \in {"start", "loop"}
    /\ \/ demux.mode = "raw" /\ (demux.pc = "start" \/ demux.sock # <<>>)
       \/ /\ demux.mode = "multiplexed"
          /\ Len(Chain(demux)) >= FRAME_HEADER
          /\ NextHeader(demux).ok
          /\ Len(Chain(demux)) >= FRAME_HEADER + NextHeader(demux).size
    /\ demux' = [demux EXCEPT !.pc = "done", !.io = "write",
                               !.ret = Err("NetworkError", 0, NoMsg)]
    /\ UNCHANGED <<runVars, call, wire, bind, build>>

NextDemux == DemuxFrame \/ RawBuffered \/ RawCopy \/ DemuxReadFails \/ DemuxWriteFails

SpecDemux == InitDemux /\ [][NextDemux]_vars


(***************************************************************************)
(* Claims about the read thread (checked under SpecDemux)                  *)
(***************************************************************************)
\* the payloads of the frames i.. whose type byte is in types, in order
RECURSIVE Routed(_, _, _)
Routed(shapes, i, types) ==
    IF i > Len(shapes) THEN <<>>
    ELSE (IF shapes[i].type \in types THEN Payload(i, shapes[i].len) ELSE <<>>)
         \o Routed(shapes, i + 1, types)

IsPrefix(s, t) == Len(s) <= Len(t) /\ s = SubSeq(t, 1, Len(s))

Multiplexed == demux # NoDemux /\ demux.mode = "multiplexed"
\* the stream is made of complete frames of the three known types
CompleteFrames ==
    /\ demux.trunc = 0
    /\ \A i \in 1..Len(demux.shapes) : demux.shapes[i].type \in {0, 1, 2}

\* C16: on a multiplexed stream of complete frames, the payloads of the
\* frames of type 0 or 1 go to stdout and those of type 2 to stderr, in
\* frame order and with exactly the declared number of bytes, and the loop
\* returns Ok at the end of the stream, also when the first frames were in
\* the buffer with the HTTP headers.
C16_FramesRouted ==
    (Multiplexed /\ CompleteFrames) =>
        /\ IsPrefix(demux.stdout, Routed(demux.shapes, 1, {0, 1}))
        /\ IsPrefix(demux.stderr, Routed(demux.shapes, 1, {2}))
        /\ (demux.pc = "done" /\ demux.io = "none") =>
              /\ demux.ret = Ok(Unit)
              /\ demux.stdout = Routed(demux.shapes, 1, {0, 1})
              /\ demux.stderr = Routed(demux.shapes, 1, {2})

\* a stdout frame and a stderr frame, the first of them buffered with the
\* headers, both delivered
C16_Witness ==
    /\ Multiplexed
    /\ CompleteFrames
    /\ Len(demux.shapes) = 2
    /\ demux.shapes[1] = [type |-> 1, len |-> 1]
    /\ demux.shapes[2] = [type |-> 2, len |-> 1]
    /\ demux.buffered = FRAME_HEADER + 1
    /\ demux.pc = "done"
    /\ demux.ret = Ok(Unit)
    /\ demux.stdout = <<11>>
    /\ demux.stderr = <<21>>


\* the frames whose type byte is none of 0, 1, 2
Invalid(shapes) == {i \in 1..Len(shapes) : shapes[i].type \notin {0, 1, 2}}
\* the frames before the first of them
Before(shapes) ==
    IF Invalid(shapes) = {} THEN shapes
    ELSE SubSeq(shapes, 1, SetMin(Invalid(shapes)) - 1)

\* C17: a frame whose stream-type byte is not 0, 1 or 2 stops the loop with
\* InvalidStream carrying that byte; none of its payload and no later frame
\* is written to stdout or stderr.
C17_InvalidStreamStops ==
    (Multiplexed /\ demux.trunc = 0) =>
        /\ IsPrefix(demux.stdout, Routed(Before(demux.shapes), 1, {0, 1}))
        /\ IsPrefix(demux.stderr, Routed(Before(demux.shapes), 1, {2}))
        /\ (demux.pc = "done" /\ demux.io = "none" /\ Invalid(demux.shapes) # {}) =>
              /\ demux.ret = Err("InvalidStream",
                                 demux.shapes[SetMin(Invalid(demux.shapes))].type, NoMsg)
              /\ demux.stdout = Routed(Before(demux.shapes), 1, {0, 1})
              /\ demux.stderr = Routed(Before(demux.shapes), 1, {2})
        /\ (demux.pc = "done" /\ demux.ret.err = "InvalidStream") =>
              Invalid(demux.shapes) # {}

\* a stdout frame was written, then a frame of type 255 with a payload
\* stopped the loop
C17_Witness ==
    /\ Multiplexed
    /\ demux.trunc = 0
    /\ Len(demux.shapes) = 2
    /\ demux.shapes[1] = [type |-> 1, len |-> 1]
    /\ demux.shapes[2] = [type |-> 255, len |-> 1]
    /\ demux.pc = "done"
    /\ demux.ret = Err("InvalidStream", 255, NoMsg)
    /\ demux.stdout = <<11>>
    /\ demux.stderr = <<>>


Raw == demux # NoDemux /\ demux.mode = "raw"

\* C18: in raw mode the bytes buffered past the header block are written to
\* stdout before any byte read later from the socket; what is written to
\* stdout is exactly the stream after the header block, in order, nothing
\* lost or duplicated.
C18_RawBufferedFirst ==
    Raw =>
        /\ IsPrefix(demux.stdout, StreamBytes(demux.shapes, demux.trunc))
        /\ demux.stderr = <<>>
        /\ (demux.pc = "loop" \/ (demux.pc = "done" /\ demux.io = "none")) =>
              Len(demux.stdout) >= demux.buffered
        /\ (demux.pc = "done" /\ demux.io = "none") =>
              /\ demux.ret = Ok(Unit)
              /\ demux.stdout = StreamBytes(demux.shapes, demux.trunc)

\* a raw stream of which some bytes were buffered and some came later
C18_Witness ==
    /\ Raw
    /\ demux.buffered = 3
    /\ Len(StreamBytes(demux.shapes, demux.trunc)) > 3
    /\ demux.pc = "done"
    /\ demux.ret = Ok(Unit)
    /\ demux.stdout = StreamBytes(demux.shapes, demux.trunc)

\* C27: read_multiplexed_data returns Ok only when the stream ends exactly
\* at a frame boundary; a stream that ends inside a frame header or inside a
\* frame payload, and any other read or write failure, yields an error.
C27_OkOnlyAtFrameBoundary ==
    (Multiplexed /\ demux.pc = "done" /\ demux.ret.ok) =>
        /\ demux.trunc = 0
        /\ demux.io = "none"


(***************************************************************************)
(* Claims about the failures of a run (checked under Spec)                 *)
(***************************************************************************)
\* a pump loop has met a failure (InvalidStream, a failed read or write)
PumpFailed == readPump = "panicked" \/ writePump = "panicked"

\* C19: every failure that occurs during a run, a failure met by a pump
\* loop after the attach handshake included, is the failure value the
\* orchestrator returns to its caller.
C19_PumpFailureSurfaced ==
    (pc = "done" /\ PumpFailed) => ~result.ok

\* a pump thread exists and has not ended
PumpRunning == readPump = "running" \/ writePump = "running"
\* a pump thread has been spawned
PumpSpawned == readPump # "none" \/ writePump # "none"

\* C29: the two pumps run independently: the end of local stdin ends the
\* stdin pump only, the end of the socket stream ends the output pump only,
\* and with pumps running the orchestrator can issue start, take the wait
\* result and issue remove, and the wait thread can issue wait.
C29_PumpsIndependent ==
    /\ [][(writePump = "running" /\ writePump' = "done") => readPump' = readPump]_vars
    /\ [][(readPump = "running" /\ readPump' = "done") => writePump' = writePump]_vars
    /\ [](PumpRunning =>
            /\ pc = "start" => ENABLED Start
            /\ wpc = "ready" => ENABLED WaitRequest
            /\ (pc = "recv" /\ chan # <<>>) => ENABLED Recv
            /\ pc = "remove" => ENABLED Remove)

\* the run has ended well, the stdin pump has ended and the output pump is
\* still running
C29_Witness ==
    /\ pc = "done"
    /\ result.ok
    /\ writePump = "done"
    /\ readPump = "running"

\* the connections a call has written a request to
ConnsOf(fn) == {i \in 1..Len(conns) : fn \in conns[i].by}

\* C30: no socket connection is shared between calls: each create, start,
\* wait and remove has a connection of its own, used by the calling thread
\* for exactly one request; attach has a further connection, used by no
\* other call, and after the handshake by its two pump loops only.
C30_ConnectionPerCall ==
    /\ \A i \in 1..Len(conns) :
          /\ conns[i].requests = 1
          /\ Cardinality(conns[i].by) = 1
          /\ conns[i].by = {"attach"} => conns[i].users \subseteq {"main", "read", "write"}
          /\ conns[i].by = {"wait"} => conns[i].users = {"wait"}
          /\ conns[i].by \cap {"attach", "wait"} = {} => conns[i].users = {"main"}
          /\ {"read", "write"} \cap conns[i].users # {} => conns[i].by = {"attach"}
    /\ \A fn \in {"create", "start", "wait", "remove"} :
          Cardinality(ConnsOf(fn)) = Count(fn)
    /\ Cardinality(ConnsOf("attach")) <= Count("attach")

\* a whole run: five calls, five connections, the one of attach in the
\* hands of the two pumps
C30_Witness ==
    /\ pc = "done"
    /\ result.ok
    /\ Len(conns) = 5
    /\ \E i \in ConnsOf("attach") : {"read", "write"} \subseteq conns[i].users
    /\ Cardinality(ConnsOf("remove")) = 1

\* C28: with a Tty, the terminal is in raw mode at every moment a pump
\* thread forwards bytes: raw mode is entered before the pumps are spawned
\* and is not restored while a pump thread is still running.
C28_RawWhilePumping ==
    /\ []((tty.some /\ PumpSpawned) => (termLog # <<>> /\ Head(termLog) = "raw"))
    /\ [][(tty.some /\ forwarded' # forwarded) => termMode = "raw"]_vars
    /\ [][(termMode = "raw" /\ termMode' = "cooked") => ~PumpRunning]_vars


(***************************************************************************)
(* SpecBind: the string a Bind is sent as in HostConfig.Binds              *)
(* (create_container, docker_client.rs 112-120).  A string is a sequence   *)
(* of characters.                                                          *)
(***************************************************************************)
\* characters in host_source and container_dest
MaxPath == 2
\* options in a Bind
MaxOptions == 2

COLON == ":"
COMMA == ","
\* a path may hold any character, ':' among them
PathChars == {"x", COLON}
\* an option may hold any character, ',' among them
OptionChars == {"o", COMMA}

Paths == UNION { [1..n -> PathChars] : n \in 1..MaxPath }
Options == [1..1 -> OptionChars]
OptionLists == UNION { [1..n -> Options] : n \in 0..MaxOptions }

\* Bind::new(host_source, container_dest, options)
Bind(host_source, container_dest, options) ==
    [host_source |-> host_source, container_dest |-> container_dest,
     options |-> options]
Binds == { Bind(h, d, o) : h \in Paths, d \in Paths, o \in OptionLists }

\* [&str]::join(sep)
RECURSIVE join(_, _)
join(strs, sep) ==
    IF strs = <<>> THEN <<>>
    ELSE IF Len(strs) = 1 THEN strs[1]
    ELSE strs[1] \o <<sep>> \o join(Tail(strs), sep)

\* Faulty variant: the options segment is written also when there is no option.
BindStringTrailing(b) ==
    b.host_source \o <<COLON>> \o b.container_dest
        \o <<COLON>> \o join(b.options, COMMA)

\* format!("{}:{}{}", host_source, container_dest,
\*         if options.len() > 0 { format!(":{}", options.join(",")) } else { "" })
BindString(b) ==
    b.host_source \o <<COLON>> \o b.container_dest
        \o (IF Len(b.options) > 0
            THEN <<COLON>> \o join(b.options, COMMA)
            ELSE <<>>)

InitBind ==
    /\ Idle
    /\ isTerminal = [st \in Streams |-> FALSE]
    /\ wire = NoWire /\ demux = NoDemux /\ build = NoBuild
    /\ \E b \in Binds : bind = [pc |-> "new", b |-> b, s |-> <<>>]

\* create_container builds the "Binds" entry of the request body
BindFormat ==
    /\ bind.pc = "new"
    /\ bind' = [bind EXCEPT !.pc = "formatted", !.s = BindString(bind.b)]
    /\ UNCHANGED <<runVars, call, wire, demux, build>>

NextBind == BindFormat

SpecBind == InitBind /\ [][NextBind]_vars

(***************************************************************************)
(* Claims about Binds (checked under SpecBind)                             *)
(***************************************************************************)
Formatted == bind # NoBind /\ bind.pc = "formatted"
Has(str, ch) == \E i \in 1..Len(str) : str[i] = ch
\* host:dest, or host:dest:o1,o2,... when there are options
Shaped(b, s) ==
    IF b.options = <<>>
    THEN s = b.host_source \o <<COLON>> \o b.container_dest
    ELSE s = b.host_source \o <<COLON>> \o b.container_dest \o <<COLON>>
               \o join(b.options, COMMA)

\* C20: the string of every Bind is host:dest without options and
\* host:dest:o1,o2,... with them, and host, dest and the option list can be
\* recovered from it: no other Bind has the same string.
C20_BindRecoverable ==
    Formatted =>
        /\ Shaped(bind.b, bind.s)
        /\ \A other \in Binds : BindString(other) = bind.s => other = bind.b

\* neither path holds a ':' and no option holds a ',' or a ':'
Unambiguous(b) ==
    /\ ~Has(b.host_source, COLON)
    /\ ~Has(b.container_dest, COLON)
    /\ \A i \in 1..Len(b.options) :
          ~Has(b.options[i], COMMA) /\ ~Has(b.options[i], COLON)

\* C20, amended: the string has the stated shape for every Bind; host, dest
\* and the option list can be recovered from it when neither path holds a
\* ':' and no option holds a ',' or a ':'.
C20_UnambiguousBindRecoverable ==
    Formatted =>
        /\ Shaped(bind.b, bind.s)
        /\ Unambiguous(bind.b) =>
              \A other \in Binds :
                 (Unambiguous(other) /\ BindString(other) = bind.s) => other = bind.b

\* a Bind with two options has been written
C20_Witness ==
    /\ Formatted
    /\ bind.b = Bind(<<"x", "x">>, <<"x">>, << <<"o">>, <<"o">> >>)
    /\ bind.s = <<"x", "x", COLON, "x", COLON, "o", COMMA, "o">>


(***************************************************************************)
(* SpecBuild: the builders of the create body (contained_body,             *)
(* run_image_body, lib.rs 97-205 and 367-446) and of the podman command    *)
(* (podman_cmd, contained_cmd, run_image_cmd, lib.rs 239-316 and 529-655). *)
(*                                                                         *)
(* A path is a name; the file system says which names exist, which one is  *)
(* a symbolic link and which one is not valid Unicode.  In a Bind a path   *)
(* is a string of one character, so that BindString applies to it.         *)
(* DockerClient::create_container_body is not in src/: the body it builds  *)
(* is taken from the fields the tests of lib.rs read and from the engine   *)
(* API of the specification, its Binds from create_container.              *)
(***************************************************************************)
ENV == <<"LANG", "LC_ADDRESS", "LC_NAME", "LC_MONETARY", "LC_PAPER",
         "LC_IDENTIFICATION", "LC_TELEPHONE", "LC_MEASUREMENT", "LC_TIME",
         "LC_NUMERIC", "USER">>
SYSTEM_MOUNTS == <<"/bin", "/etc", "/lib", "/lib32", "/lib64", "/libx32",
                   "/sbin", "/usr">>
USER_MOUNTS == <<"/etc/passwd", "/etc/group">>
X11_SOCKET == "/tmp/.X11-unix"

\* a path whose name is not valid Unicode
NonUnicode == "/bad<ff>"
\* the home directory (HOME)
HomeDir == "/home/u"

\* Option<T>
Omitted == [some |-> FALSE, v |-> <<>>]
SomeOf(v) == [some |-> TRUE, v |-> v]
\* Result<PathBuf, _>
Found(p) == [ok |-> TRUE, path |-> p]
NotFound == [ok |-> FALSE, path |-> ""]

\* fs::canonicalize on the file system of the model: /link is a symbolic
\* link to /data, /gone does not exist
canonicalize(p) ==
    CASE p = "/link" -> Found("/data")
      [] p = "/gone" -> NotFound
      [] OTHER -> Found(p)

\* Path::to_str(): None for a name that is not valid Unicode
to_str_ok(p) == p # NonUnicode

\* resolve_program: a bare name is looked up in PATH, a path is
\* canonicalized; the program must be an executable file
resolve_program(program) ==
    CASE program = "ls" -> Found("/usr/bin/ls")
      [] program = "/work/tool" -> Found("/work/tool")
      [] OTHER -> NotFound

\* Path::parent() of the programs of the model
parent(p) == IF p = "/usr/bin/ls" THEN "/usr/bin" ELSE "/work"

\* PathBuf::starts_with over the directories of the model
starts_with(p, prefix) == p = prefix \/ prefix = "/" \/ (p = HomeDir /\ prefix = "/home")

Programs == {"ls", "/work/tool", "nope"}
ArgumentLists == {<<>>, <<"-l">>, <<"-l", "x">>, <<"x", "-l">>}
ReadonlyLists == {<<>>, <<"/opt">>, <<"/link">>, <<"/gone">>, <<NonUnicode>>,
                  <<"/opt", "/srv">>}
WritableLists == {<<>>, <<"/data">>, <<"/link">>}
EnvLists == {<<>>, <<"FOO=1">>}
NoWorkdir == "<none>"
Workdirs == {NoWorkdir, "/link", "/gone"}
CurrentDirs == {"/work", "/home", HomeDir}

\* what the caller passes, and the part of the environment the builders read
BuildInputs ==
    [image : {"test_image"},
     program : Programs,
     arguments : ArgumentLists,
     network : {"host"},
     user : {"1000:1000"},
     mount_current_dir : BOOLEAN,
     mount_current_dir_writable : BOOLEAN,
     mount_readonly : ReadonlyLists,
     mount_writable : WritableLists,
     extra_env : EnvLists,
     workdir : Workdirs,
     x11 : BOOLEAN,
     current_dir : CurrentDirs,
     \* the system and user mounts that exist on the host
     present : {{}, {"/bin", "/usr", "/etc/passwd"}}]

\* a Bind of a path onto itself
PathBind(p, options) == Bind(<<p>>, <<p>>, options)
ReadOnly == << <<"ro">> >>
ReadWrite == << <<"rw">> >>

\* the elements of a list that pass a test, in order
RECURSIVE Present(_, _)
Present(list, S) ==
    IF list = <<>> THEN <<>>
    ELSE (IF Head(list) \in S THEN <<Head(list)>> ELSE <<>>) \o Present(Tail(list), S)

\* Tmpfs::new(container_dest, options), sent as dest -> options.join(",")
Tmpfs(container_dest, options) == <<container_dest, join(options, COMMA)>>

\* Ok(value) or Err(anyhow error) of a builder
Built(v) == [ok |-> TRUE, err |-> "", v |-> v]
BuildErr(e) == [ok |-> FALSE, err |-> e, v |-> <<>>]


\* Faulty variant: each path is bound under its canonical name.
PathBindsCanonical(list, options) ==
    [i \in 1..Len(list) |-> PathBind(canonicalize(list[i]).path, options)]

\* a Bind of each path of a list onto itself, in order
PathBinds(list, options) == [i \in 1..Len(list) |-> PathBind(list[i], options)]

\* the working directory before it is canonicalized: the override, else the
\* current directory when it is mounted, else "/"
WorkingDir(in) ==
    IF in.workdir # NoWorkdir THEN in.workdir
    ELSE IF in.mount_current_dir THEN in.current_dir
    ELSE "/"

\* which of the standard streams are terminals: all, none, all but stdin
Terminals ==
    { [st \in Streams |-> TRUE], [st \in Streams |-> FALSE],
      [st \in Streams |-> st # "stdin"] }

\* is_tty: stdin, stdout and stderr are all terminals
is_tty_of(term) == \A st \in Streams : term[st]

\* Faulty variant: the Tty is built from (width, height) as it comes.
TtyOfSwapped(term, size) ==
    IF is_tty_of(term) THEN Tty(size[1], size[2]) ELSE NoTty

\* contained_via_daemon: the Tty, from terminal_size() = (width, height)
TtyOf(term, size) ==
    IF is_tty_of(term) THEN Tty(size[2], size[1]) ELSE NoTty

\* DockerClient::create_container_body: the JSON body of POST
\* /containers/create; cmd and entrypoint are omitted when None
create_container_body(image, cmd, entrypoint, network, user, env, binds, tmpfs, readonly_rootfs, working_dir, t) ==
    [Image |-> image,
     Cmd |-> cmd,
     Entrypoint |-> entrypoint,
     User |-> user,
     Env |-> env,
     AttachStdin |-> TRUE,
     AttachStdout |-> TRUE,
     AttachStderr |-> TRUE,
     OpenStdin |-> TRUE,
     Tty |-> t.some,
     WorkingDir |-> working_dir,
     HostConfig |->
        [NetworkMode |-> network,
         Binds |-> [i \in 1..Len(binds) |-> BindString(binds[i])],
         ReadonlyRootfs |-> readonly_rootfs,
         Tmpfs |-> {tmpfs[i] : i \in 1..Len(tmpfs)},
         ConsoleSize |-> IF t.some THEN <<t.height, t.width>> ELSE <<>>]]

\* Faulty variant: the program directory is bound in every case.
ProgramBindsAlways(in, program_dir) ==
    <<PathBind(program_dir, ReadOnly)>>
    \o (IF in.mount_current_dir
        THEN <<PathBind(in.current_dir,
                        IF in.mount_current_dir_writable THEN ReadWrite ELSE ReadOnly)>>
        ELSE <<>>)

\* the binds of the program directory and of the current directory
\* (lib.rs 127-143)
ProgramBinds(in, program_dir) ==
    LET current_dir_bind_option ==
            IF in.mount_current_dir_writable THEN ReadWrite ELSE ReadOnly
    IN  IF in.mount_current_dir
        THEN (IF program_dir # in.current_dir
              THEN <<PathBind(program_dir, ReadOnly)>> ELSE <<>>)
             \o <<PathBind(in.current_dir, current_dir_bind_option)>>
        ELSE <<PathBind(program_dir, ReadOnly)>>

\* Faulty variant: the working directory is taken as given.
AbsoluteWorkingDirAsGiven(in) == Found(WorkingDir(in))

\* fs::canonicalize(working_dir)
AbsoluteWorkingDir(in) == canonicalize(WorkingDir(in))

\* contained_body: the create body that runs a program of the host
contained_body(in, t) ==
    LET program == resolve_program(in.program)
        program_dir == parent(program.path)
        binds == ProgramBinds(in, program_dir)
                 \o PathBinds(Present(SYSTEM_MOUNTS, in.present), ReadOnly)
                 \o PathBinds(in.mount_readonly, ReadOnly)
                 \o PathBinds(in.mount_writable, ReadWrite)
                 \o (IF in.x11 THEN <<PathBind(X11_SOCKET, <<>>)>> ELSE <<>>)
        tmpfs == <<Tmpfs("/tmp", << <<"rw">>, <<"exec">> >>),
                   Tmpfs("/var/tmp", << <<"rw">>, <<"exec">> >>),
                   Tmpfs("/run", << <<"rw">>, <<"noexec">> >>),
                   Tmpfs("/var/run", << <<"rw">>, <<"noexec">> >>)>>
        absolute_working_dir == AbsoluteWorkingDir(in)
        env == ENV \o in.extra_env \o (IF in.x11 THEN <<"DISPLAY">> ELSE <<>>)
        entrypoint == <<program.path>> \o in.arguments
    IN  IF ~program.ok THEN BuildErr("Program not found")
        ELSE IF \E i \in 1..Len(in.mount_readonly) : ~to_str_ok(in.mount_readonly[i])
        THEN BuildErr("Path is not valid Unicode")
        ELSE IF \E i \in 1..Len(in.mount_writable) : ~to_str_ok(in.mount_writable[i])
        THEN BuildErr("Path is not valid Unicode")
        ELSE IF ~absolute_working_dir.ok THEN BuildErr("No such file or directory")
        ELSE Built(create_container_body(in.image, Omitted, SomeOf(entrypoint),
                                         in.network, in.user, env, binds, tmpfs,
                                         TRUE, absolute_working_dir.path, t))

\* run_image_body: the create body that runs an image
run_image_body(in, entrypoint, t) ==
    LET current_dir_bind_option ==
            IF in.mount_current_dir_writable THEN ReadWrite ELSE ReadOnly
        binds == (IF in.mount_current_dir
                  THEN <<PathBind(in.current_dir, current_dir_bind_option)>>
                  ELSE <<>>)
                 \o PathBinds(Present(USER_MOUNTS, in.present), ReadOnly)
                 \o PathBinds(in.mount_readonly, ReadOnly)
                 \o PathBinds(in.mount_writable, ReadWrite)
                 \o (IF in.x11 THEN <<PathBind(X11_SOCKET, <<>>)>> ELSE <<>>)
        env == in.extra_env \o (IF in.x11 THEN <<"DISPLAY">> ELSE <<>>)
        absolute_working_dir == AbsoluteWorkingDir(in)
    IN  IF \E i \in 1..Len(in.mount_readonly) : ~to_str_ok(in.mount_readonly[i])
        THEN BuildErr("Path is not valid Unicode")
        ELSE IF \E i \in 1..Len(in.mount_writable) : ~to_str_ok(in.mount_writable[i])
        THEN BuildErr("Path is not valid Unicode")
        ELSE IF ~absolute_working_dir.ok THEN BuildErr("No such file or directory")
        ELSE Built(create_container_body(in.image, SomeOf(in.arguments),
                                         IF entrypoint = "" THEN Omitted
                                         ELSE SomeOf(<<entrypoint>>),
                                         in.network, in.user, env, binds, <<>>,
                                         FALSE, absolute_working_dir.path, t))


\* the --mount argument of a path onto itself; an argument that is put
\* together from pieces is the sequence of its pieces
MountArg(p, readonly) ==
    <<"type=bind,source=", p, ",target=", p>>
    \o (IF readonly THEN <<",readonly">> ELSE <<>>)

\* arguments that are given whole: each is the sequence of its one piece
Args(list) == [i \in 1..Len(list) |-> <<list[i]>>]

\* --mount <arg> for each path of a list, in order
RECURSIVE MountArgs(_, _)
MountArgs(list, readonly) ==
    IF list = <<>> THEN <<>>
    ELSE << <<"--mount">>, MountArg(Head(list), readonly)>>
         \o MountArgs(Tail(list), readonly)

\* -e <entry> for each entry of a list, in order
RECURSIVE EnvArgs(_)
EnvArgs(list) ==
    IF list = <<>> THEN <<>>
    ELSE Args(<<"-e", Head(list)>>) \o EnvArgs(Tail(list))

\* Faulty variant: the names are taken as given.
CanonicalAsGiven(list) == list

\* the canonical names of the paths of a list (all of them exist)
Canonical(list) == [i \in 1..Len(list) |-> canonicalize(list[i]).path]

\* Faulty variant: only the home directory itself is refused.
InHomeOnly(current_dir, home_dir) == current_dir = home_dir

\* the current directory is the home directory or one of its ancestors
AtOrAboveHome(current_dir, home_dir) ==
    current_dir = home_dir \/ starts_with(home_dir, current_dir)

\* podman_cmd: the part of the podman command the two commands share
podman_cmd(in, is_tty) ==
    LET head == Args(<<"run", "--userns=keep-id", "--cap-drop", "ALL",
                       "--security-opt", "no-new-privileges=true", "--rm",
                       "--interactive">>)
                \o (IF is_tty THEN Args(<<"--tty">>) ELSE <<>>)
                \o << <<"--network=", in.network>> >>
        current == IF in.mount_current_dir
                   THEN MountArgs(<<in.current_dir>>, ~in.mount_current_dir_writable)
                        \o Args(<<"--workdir",
                                  IF in.workdir # NoWorkdir THEN in.workdir
                                  ELSE in.current_dir>>)
                   ELSE IF in.workdir # NoWorkdir
                   THEN Args(<<"--workdir", in.workdir>>)
                   ELSE <<>>
        x11 == IF in.x11
               THEN Args(<<"-e", "DISPLAY">>) \o MountArgs(<<X11_SOCKET>>, FALSE)
               ELSE <<>>
    IN  IF in.mount_current_dir /\ AtOrAboveHome(in.current_dir, HomeDir)
        THEN BuildErr("Cannot run from home directory or its parent directories")
        ELSE IF \E i \in 1..Len(in.mount_readonly) : ~canonicalize(in.mount_readonly[i]).ok
        THEN BuildErr("Mount point not found")
        ELSE IF \E i \in 1..Len(in.mount_writable) : ~canonicalize(in.mount_writable[i]).ok
        THEN BuildErr("Mount point not found")
        ELSE Built(head \o current
                   \o MountArgs(Canonical(in.mount_readonly), TRUE)
                   \o MountArgs(Canonical(in.mount_writable), FALSE)
                   \o x11 \o EnvArgs(in.extra_env))

\* contained_cmd: the podman command that runs a program of the host
contained_cmd(in, is_tty) ==
    LET cmd == podman_cmd(in, is_tty)
        program == resolve_program(in.program)
        program_dir == parent(program.path)
        program_dir_arg ==
            IF in.mount_current_dir /\ program_dir = in.current_dir THEN <<>>
            ELSE MountArgs(<<program_dir>>, TRUE)
    IN  IF ~cmd.ok THEN cmd
        ELSE IF ~program.ok THEN BuildErr("Program not found")
        ELSE Built(cmd.v \o Args(<<"--read-only">>) \o program_dir_arg
                   \o MountArgs(Present(SYSTEM_MOUNTS, in.present), TRUE)
                   \o Args(<<"--tmpfs=/tmp:rw,exec", "--tmpfs=/var/tmp:rw,exec",
                             "--tmpfs=/run:rw,noexec", "--tmpfs=/var/run:rw,noexec">>)
                   \o EnvArgs(ENV)
                   \o Args(<<"--entrypoint", program.path, in.image>> \o in.arguments))

\* run_image_cmd: the podman command that runs an image
run_image_cmd(in, entrypoint, is_tty) ==
    LET cmd == podman_cmd(in, is_tty)
    IN  IF ~cmd.ok THEN cmd
        ELSE Built(cmd.v
                   \o (IF entrypoint = "" THEN <<>>
                       ELSE Args(<<"--entrypoint", entrypoint>>))
                   \o Args(<<in.image>> \o in.arguments))

\* <flag> <path> <path> for each path of a list, in order
RECURSIVE BindArgs(_, _)
BindArgs(list, flag) ==
    IF list = <<>> THEN <<>>
    ELSE Args(<<flag, Head(list), Head(list)>>) \o BindArgs(Tail(list), flag)

\* --setenv <entry> for each entry of a list, in order
RECURSIVE SetenvArgs(_)
SetenvArgs(list) ==
    IF list = <<>> THEN <<>>
    ELSE Args(<<"--setenv", Head(list)>>) \o SetenvArgs(Tail(list))

\* bwrap_cmd: the bwrap command that runs a program of the host
bwrap_cmd(in, network) ==
    LET head == Args(<<"--ro-bind", "/usr/bin", "/usr/bin",
                       "--ro-bind", "/usr/sbin", "/usr/sbin",
                       "--ro-bind", "/usr/lib", "/usr/lib",
                       "--ro-bind", "/usr/lib64", "/usr/lib64",
                       "--ro-bind", "/usr/share", "/usr/share",
                       "--symlink", "/usr/lib", "/lib",
                       "--symlink", "/usr/lib64", "/lib64",
                       "--symlink", "/usr/bin", "/bin",
                       "--symlink", "/usr/sbin", "/sbin",
                       "--proc", "/proc", "--dev", "/dev">>)
        program == resolve_program(in.program)
        program_dir == parent(program.path)
        current ==
            IF in.mount_current_dir
            THEN BindArgs(<<in.current_dir>>,
                          IF in.mount_current_dir_writable THEN "--bind"
                          ELSE "--ro-bind")
                 \o Args(<<"--chdir",
                           IF in.workdir # NoWorkdir THEN in.workdir
                           ELSE in.current_dir>>)
                 \o (IF program_dir # in.current_dir
                     THEN BindArgs(<<program_dir>>, "--ro-bind") ELSE <<>>)
            ELSE (IF in.workdir # NoWorkdir
                  THEN Args(<<"--chdir", in.workdir>>) ELSE <<>>)
                 \o BindArgs(<<program_dir>>, "--ro-bind")
    IN  IF ~program.ok THEN BuildErr("Program not found")
        ELSE IF in.mount_current_dir /\ AtOrAboveHome(in.current_dir, HomeDir)
        THEN BuildErr("Cannot run from home directory or its parent directories")
        ELSE IF \E i \in 1..Len(in.mount_readonly) : ~canonicalize(in.mount_readonly[i]).ok
        THEN BuildErr("Mount point not found")
        ELSE IF \E i \in 1..Len(in.mount_writable) : ~canonicalize(in.mount_writable[i]).ok
        THEN BuildErr("Mount point not found")
        ELSE Built(head \o current
                   \o BindArgs(Canonical(in.mount_readonly), "--ro-bind")
                   \o BindArgs(Canonical(in.mount_writable), "--bind")
                   \o SetenvArgs(in.extra_env)
                   \o Args(<<"--new-session", "--unshare-all">>)
                   \o (IF network THEN Args(<<"--share-net">>) ELSE <<>>)
                   \o Args(<<program.path>> \o in.arguments))

\* Option<String> of the entrypoint override; "" is None
Entrypoints == {"", "sh"}

Building(kind, in, entrypoint, term, size, r) ==
    [pc |-> "built", kind |-> kind, in |-> in, entrypoint |-> entrypoint,
     term |-> term, size |-> size, ret |-> r]

InitBuild ==
    /\ Idle
    /\ isTerminal = [st \in Streams |-> FALSE]
    /\ wire = NoWire /\ demux = NoDemux /\ bind = NoBind
    /\ \E in \in BuildInputs :
          build = [pc |-> "new", in |-> in]

BuildContainedBody ==
    /\ build.pc = "new"
    /\ \E term \in Terminals, size \in TermSizes :
          build' = Building("contained_body", build.in, "", term, size,
                            contained_body(build.in, TtyOf(term, size)))
    /\ UNCHANGED <<runVars, call, wire, demux, bind>>

BuildRunImageBody ==
    /\ build.pc = "new"
    /\ \E term \in Terminals, size \in TermSizes, entrypoint \in Entrypoints :
          build' = Building("run_image_body", build.in, entrypoint, term, size,
                            run_image_body(build.in, entrypoint, TtyOf(term, size)))
    /\ UNCHANGED <<runVars, call, wire, demux, bind>>

BuildContainedCmd ==
    /\ build.pc = "new"
    /\ \E term \in Terminals, size \in TermSizes :
          build' = Building("contained_cmd", build.in, "", term, size,
                            contained_cmd(build.in, is_tty_of(term)))
    /\ UNCHANGED <<runVars, call, wire, demux, bind>>

BuildRunImageCmd ==
    /\ build.pc = "new"
    /\ \E term \in Terminals, size \in TermSizes, entrypoint \in Entrypoints :
          build' = Building("run_image_cmd", build.in, entrypoint, term, size,
                            run_image_cmd(build.in, entrypoint, is_tty_of(term)))
    /\ UNCHANGED <<runVars, call, wire, demux, bind>>

BuildBwrapCmd ==
    /\ build.pc = "new"
    /\ \E term \in Terminals, size \in TermSizes, network \in BOOLEAN :
          build' = Building("bwrap_cmd", build.in, "", term, size,
                            bwrap_cmd(build.in, network))
    /\ UNCHANGED <<runVars, call, wire, demux, bind>>

NextBuild ==
    \/ BuildContainedBody
    \/ BuildRunImageBody
    \/ BuildContainedCmd
    \/ BuildRunImageCmd
    \/ BuildBwrapCmd

SpecBuild == InitBuild /\ [][NextBuild]_vars



\* a builder has returned Ok
BuiltBy(kind) == build.pc = "built" /\ build.kind = kind /\ build.ret.ok

\* the string "P:P:<option>" is one of HostConfig.Binds
HasBind(body, p, option) ==
    \E i \in 1..Len(body.HostConfig.Binds) :
        body.HostConfig.Binds[i] = <<p, COLON, p, COLON, option>>

\* the elements of a list
Elems(list) == {list[i] : i \in 1..Len(list)}

BindsOf(body, p) ==
    {i \in 1..Len(body.HostConfig.Binds) : body.HostConfig.Binds[i][1] = p}

\* C22: contained_body binds the program's own directory read-only in every
\* case except when the current directory is mounted and is the program's
\* directory; then that directory has the current-directory bind only, which
\* is read-write exactly when the writable flag is set.
C22_ProgramDirBind ==
    BuiltBy("contained_body") =>
        LET body == build.ret.v
            in == build.in
            program_dir == parent(resolve_program(in.program).path)
            option == IF in.mount_current_dir_writable THEN "rw" ELSE "ro"
        IN  IF in.mount_current_dir /\ program_dir = in.current_dir
            THEN /\ Cardinality(BindsOf(body, program_dir)) = 1
                 /\ HasBind(body, in.current_dir, option)
            ELSE /\ HasBind(body, program_dir, "ro")
                 /\ in.mount_current_dir =>
                        /\ HasBind(body, in.current_dir, option)
                        /\ Cardinality(BindsOf(body, in.current_dir)) = 1

C22_Witness ==
    /\ BuiltBy("contained_body")
    /\ build.in.mount_current_dir
    /\ build.in.mount_current_dir_writable
    /\ build.in.program = "/work/tool"
    /\ build.in.current_dir = "/work"
    /\ build.ret.v.HostConfig.Binds[1] = <<"/work", COLON, "/work", COLON, "rw">>


\* one of the two builders of a create body has returned
BodyReturned == build.pc = "built" /\ build.kind \in {"contained_body", "run_image_body"}

\* C23: the working directory of the create body is the canonical form of
\* the override when one is given, else of the current directory when it is
\* mounted, else of "/"; it is the name of an existing path with no symbolic
\* link left in it; building fails when the chosen path does not exist.
C23_WorkingDirCanonical ==
    BodyReturned =>
        LET in == build.in
            chosen == IF in.workdir # NoWorkdir THEN in.workdir
                      ELSE IF in.mount_current_dir THEN in.current_dir
                      ELSE "/"
        IN  /\ build.ret.ok =>
                 /\ canonicalize(chosen).ok
                 /\ build.ret.v.WorkingDir = canonicalize(chosen).path
                 /\ canonicalize(build.ret.v.WorkingDir) = Found(build.ret.v.WorkingDir)
            /\ ~canonicalize(chosen).ok => ~build.ret.ok

C23_Witness ==
    /\ BuiltBy("run_image_body")
    /\ build.in.workdir = "/link"
    /\ build.in.mount_current_dir
    /\ build.ret.v.WorkingDir = "/data"


\* one of the two builders of a podman command has returned Ok
CmdBuilt == BuiltBy("contained_cmd") \/ BuiltBy("run_image_cmd")

\* the entrypoint a command is built with: the resolved program, or the
\* override ("" when there is none)
EntrypointOf(b) ==
    IF b.kind = "contained_cmd" THEN resolve_program(b.in.program).path
    ELSE b.entrypoint

\* option is followed by value in the vector
Follows(args, option, value) ==
    \E i \in 1..(Len(args) - 1) : args[i] = <<option>> /\ args[i + 1] = <<value>>

\* --mount is followed by the mount m in the vector
HasMount(args, m) ==
    \E i \in 1..(Len(args) - 1) : args[i] = <<"--mount">> /\ args[i + 1] = m

\* what the vector holds whatever the mounts are: --network=<network>, the
\* image, --entrypoint with its value when there is one, every program
\* argument and every extra environment entry
VectorBasics(b) ==
    LET args == b.ret.v
    IN  /\ <<"--network=", b.in.network>> \in Elems(args)
        /\ <<b.in.image>> \in Elems(args)
        /\ EntrypointOf(b) # "" => Follows(args, "--entrypoint", EntrypointOf(b))
        /\ \A a \in Elems(b.in.arguments) : <<a>> \in Elems(args)
        /\ \A e \in Elems(b.in.extra_env) : Follows(args, "-e", e)

\* C24 as stated: every user read-only path P appears in the vector as the
\* mount "type=bind,source=P,target=P,readonly", every user writable path P
\* as "type=bind,source=P,target=P", and the vector holds the network, the
\* image, the entrypoint, the arguments and the extra environment entries.
C24_VectorVerbatim ==
    CmdBuilt =>
        /\ \A p \in Elems(build.in.mount_readonly) :
              HasMount(build.ret.v, MountArg(p, TRUE))
        /\ \A p \in Elems(build.in.mount_writable) :
              HasMount(build.ret.v, MountArg(p, FALSE))
        /\ VectorBasics(build)

\* C24 amended: the mount of a user path P names the canonical form of P as
\* source and target (P itself when P exists and holds no symbolic link);
\* no vector is built when a user path does not exist.
C24_VectorCanonical ==
    /\ CmdBuilt =>
        /\ \A p \in Elems(build.in.mount_readonly) :
              /\ canonicalize(p).ok
              /\ HasMount(build.ret.v, MountArg(canonicalize(p).path, TRUE))
        /\ \A p \in Elems(build.in.mount_writable) :
              /\ canonicalize(p).ok
              /\ HasMount(build.ret.v, MountArg(canonicalize(p).path, FALSE))
        /\ VectorBasics(build)
    /\ (/\ build.pc = "built"
        /\ build.kind \in {"contained_cmd", "run_image_cmd"}
        /\ \E p \in Elems(build.in.mount_readonly) \cup Elems(build.in.mount_writable) :
              ~canonicalize(p).ok)
       => ~build.ret.ok

C24_Witness ==
    /\ BuiltBy("contained_cmd")
    /\ build.in.mount_readonly = <<"/link">>
    /\ build.in.mount_writable = <<"/link">>
    /\ build.in.arguments = <<"-l", "x">>
    /\ build.in.extra_env = <<"FOO=1">>
    /\ HasMount(build.ret.v, MountArg("/data", TRUE))
    /\ HasMount(build.ret.v, MountArg("/data", FALSE))


\* C25: create, start and wait return InvalidResponse only when the status
\* is a success status; every non-success status yields ErrorResponse,
\* whether or not the response carries a body.
C25_InvalidOnlyOnSuccess ==
    (call.fn \in {"create", "start", "wait"} /\ Arrived(call.resp)) =>
        LET resp == call.resp
            res == call.result
        IN  /\ (~res.ok /\ res.err = "InvalidResponse") => Is2xx(resp.status)
            /\ ~Is2xx(resp.status) => (~res.ok /\ res.err = "ErrorResponse")



\* C31: a Tty is built only when stdin, stdout and stderr are all terminals;
\* the create body has Tty = true and ConsoleSize = [height, width], in that
\* order, exactly when a Tty is present, and Tty = false and no console size
\* when it is absent.
C31_TtyInBody ==
    (BuiltBy("contained_body") \/ BuiltBy("run_image_body")) =>
        LET body == build.ret.v
            all == /\ build.term["stdin"]
                   /\ build.term["stdout"]
                   /\ build.term["stderr"]
            width == build.size[1]
            height == build.size[2]
        IN  /\ body.Tty = all
            /\ body.HostConfig.ConsoleSize = IF all THEN <<height, width>> ELSE <<>>

C31_Witness ==
    /\ BuiltBy("contained_body")
    /\ build.term = [st \in Streams |-> TRUE]
    /\ build.ret.v.Tty
    /\ build.ret.v.HostConfig.ConsoleSize = <<24, 80>>


\* a command builder has returned
CmdReturned ==
    /\ build.pc = "built"
    /\ build.kind \in {"contained_cmd", "run_image_cmd", "bwrap_cmd"}

\* the current directory is to be mounted and is HOME or above it
MountedAtOrAboveHome ==
    /\ build.in.mount_current_dir
    /\ build.in.current_dir \in {"/home/u", "/home"}

HomeError == "Cannot run from home directory or its parent directories"

HeaderLoopMustEnd ==
    /\ wire.pc = "header"
    /\ \/ wire.sc.close /\ wire.pos = Total(wire.sc.resp)
       \/ wire.bytes_read = BUFFER_SIZE

\* C33: the header-reading loop of make_request (and of read_response, which
\* is the same loop) always terminates: when the peer closes the connection
\* (a read returns 0 bytes) or the buffer is full before a complete header
\* block has been parsed, the call returns an error instead of looping
\* forever.
C33_HeaderLoopEnds == HeaderLoopMustEnd ~> (wire.pc = "done" /\ ~wire.ret.ok)


\* C34: for every response, every index and range make_request uses stays
\* inside the buffer and no subtraction underflows: a Content-Length smaller
\* than the header size, a header plus body longer than the buffer, or a
\* chunk-size line with no carriage return in the received bytes yields an
\* error value, never an out-of-bounds access.
C34_InBounds == wire.pc # "panicked"


\* run_container has returned
Returned == pc \in {"restore", "done"}

\* C35: when run_container returns an exit code, every byte the engine sent
\* on the attach stream before closing it has already been written to the
\* local output by the read pump, in every interleaving of the pump thread
\* with the wait thread and the main thread.
C35_OutputDrained == (Returned /\ result.ok) => forwarded = emitted

\* C36: the wait thread's send on the exit-code channel never fails: in
\* every run, including runs that end early because start fails, the
\* receiving end is still alive when the wait thread sends its result.
C36_SendNeverFails == [][(wpc = "got" /\ wpc' # "got") => rx = "alive"]_vars

\* C37: if the wait thread ends without sending a result, the receive on the
\* exit-code channel returns an error and the run fails; the main thread is
\* never left blocked on a channel whose sender is gone.
C37_RecvFailsWhenSenderGone ==
    (pc = "recv" /\ wpc = "panicked" /\ sends = 0)
        ~> (pc = "done" /\ result = RunErr("RecvError", NoResult))

C37_Witness ==
    /\ pc = "done"
    /\ wpc = "panicked"
    /\ sends = 0
    /\ result = RunErr("RecvError", NoResult)

\* C38: when wait succeeded with exit code c and the following remove
\* request fails, run_container returns the remove failure and not (id, c);
\* (id, c) is returned only when remove also succeeded.
C38_RemoveFailureReturned ==
    Returned =>
        /\ (Issued("remove") /\ ~removeRes.ok) =>
              result = RunErr("Unable to remove container", removeRes)
        /\ result.ok =>
              /\ Issued("remove") /\ removeRes.ok
              /\ recvd.ok
              /\ result = RunOk(createRes.val.s, recvd.val.n)

C38_Witness ==
    /\ Returned
    /\ recvd.ok
    /\ Issued("remove")
    /\ ~removeRes.ok
    /\ result = RunErr("Unable to remove container", removeRes)


\* C39: whenever a daemon run ends successfully with container exit code c,
\* the launching process itself exits with exit code c, for every binary
\* that runs a container through the daemon.
C39_ExitCodePropagated == (proc.ended /\ result.ok) => proc.status = result.code

====
